---- MODULE Spec2Model ----
(***************************************************************************)
(* A model of the generic vt102 backend (vt102-backend-generic.c): the     *)
(* screen state kept in struct term_data, the backend operations that the  *)
(* command parser invokes through struct vt102_backend_ops, the resize     *)
(* entry point, and the render pass of the host event loop (term3.c,       *)
(* qterm.c) that clears the refresh flags.                                 *)
(*                                                                         *)
(* Buffers are flat, zero-based byte arrays indexed y * con_width + x, as  *)
(* in the source; memset/memmove are modelled on these flat arrays with    *)
(* the offsets and lengths the source computes.                            *)
(***************************************************************************)
EXTENDS Integers, Sequences, FiniteSets, TLC

\* ------------------------------------------------------------------------
\* program constants
\* ------------------------------------------------------------------------
NR_MIN_VT102_SCREEN_COLUMNS == 10
NR_MIN_VT102_SCREEN_ROWS == 2

\* character codes used by the source
SPACE == 32
CHAR_E == 69

\* limits of the command parser
PARAM_MAX == 65535
NR_MAX_PARAMS == 16
NR_MAX_INTERMEDIATES == 2

\* ------------------------------------------------------------------------
\* bounds of the exploration
\* ------------------------------------------------------------------------
\* number of operations applied after construction
MaxSteps == 3
\* largest screen width / height requested from init and resize
MaxWidth == 11
MaxHeight == 3
\* largest line / character count passed to IL, DL and DCH
MaxCount == 2
\* number of bytes fed to the command parser
MaxBytes == 4

\* ------------------------------------------------------------------------
\* inputs
\* ------------------------------------------------------------------------
\* widths and heights handed to init and resize: below the minimum
\* (zero and negative included), the minimum, and above it
WidthArgs == {0, NR_MIN_VT102_SCREEN_COLUMNS, MaxWidth}
HeightArgs == {-1, NR_MIN_VT102_SCREEN_ROWS, MaxHeight}
\* displayable bytes fed to display_char
DisplayChars == {65}
\* cursor move arguments: in range, negative, and far out of range
RelArgs == {<<-1, 0>>, <<1, 0>>, <<0, -1>>, <<0, 1>>, <<40, 40>>, <<-40, -40>>}
AbsArgs == {<<-1, -1>>, <<0, 0>>, <<3, 1>>,
            <<NR_MIN_VT102_SCREEN_COLUMNS - 1, 1>>,
            <<0, MaxHeight - 1>>,
            <<NR_MIN_VT102_SCREEN_COLUMNS - 1, MaxHeight - 1>>,
            <<MaxWidth - 1, MaxHeight - 1>>,
            <<MaxWidth, MaxHeight>>}
AbsCols == {-1, 3, NR_MIN_VT102_SCREEN_COLUMNS - 1, MaxWidth}
\* margin arguments: in range, negative, equal, reversed, out of range
MarginArgs == {<<-1, -1>>, <<0, 0>>, <<0, 1>>, <<1, 2>>, <<1, 0>>,
               <<0, MaxHeight - 1>>, <<MaxHeight - 2, MaxHeight - 1>>,
               <<MaxHeight - 1, MaxHeight - 1>>, <<MaxHeight, MaxHeight + 1>>,
               <<MaxHeight + 1, -1>>}
\* IL / DL counts (the parser passes at least 1), DCH counts
LineCounts == 1 .. MaxCount
CharCounts == {-1, 0} \cup (1 .. MaxCount) \cup {MaxWidth + 1}
\* SGR parameter lists
SgrArgs == {<< >>, <<0>>, <<7>>, <<31>>, <<39>>, <<44>>, <<49>>, <<38>>,
            <<37, 47>>, <<7, 31>>}
\* parameter lists of the control sequences CSI H, CSI r and CSI c
CupParams == {<< >>, <<1, 1>>}
DecstbmParams == {<< >>, <<2, 3>>}
DaParams == {<< >>, <<0>>}
\* which allocation of init (calloc of the term_data, malloc of chbuf, of
\* grbuf, of must_refresh_line_buf) or of resize (malloc of chbuf, of grbuf,
\* realloc of must_refresh_line_buf) returns 0
InitAllocations == 1 .. 4
\* bytes fed to the command parser: BEL, LF, ESC, space, '1', ';', '?', 'A',
\* 'H', '[', '\', ']', 'c', 'z' and 0xFF
InputBytes == {7, 10, 27, 32, 49, 59, 63, 65, 72, 91, 92, 93, 99, 122, 255}
\* entries of the backend table a host replaces by a function of its own
OverrideArgs == {"display_char", "handle_linefeed", "move_cursor_relative",
                 "move_cursor_absolute", "erase_line_from_cursor_to_end"}
ResizeAllocations == 1 .. 3
\* the descriptors the host loop waits on: the transport and the X display
Descriptors == {"comm_fd", "x_fd"}
\* what the host loop is fed once the bytes read from the transport are
\* parsed: a linefeed, a carriage return, a cursor step to the right
LoopInputs == {"handle_linefeed", "handle_carriage_return",
               "move_cursor_relative"}
\* window heights, in rows, of the ConfigureNotify events of the host loop
LoopHeights == {NR_MIN_VT102_SCREEN_ROWS, NR_MIN_VT102_SCREEN_ROWS + 1}

VARIABLES
    tdata,   \* struct term_data of the backend instance
    prev,    \* history: tdata before the last operation
    op,      \* history: name of the last operation
    args,    \* history: arguments of the last operation
    steps,   \* number of operations applied so far
    emitted, \* bytes the last operation wrote to the transport (comm_fd)
    nocore,  \* the allocation that failed in the last operation, 0 if none
    exited,  \* the last operation ended the process with exit(1)
    overrides, \* entries of the backend table the host has replaced
    hooked,  \* the replaced entries that were called in the last operation
    vt,      \* struct vt102_state: the state of the command parser
    prev_vt, \* history: vt before the last operation
    ready    \* descriptors select() would report readable in the host loop

vars == <<tdata, prev, op, args, steps, emitted, nocore, exited,
          overrides, hooked, vt, prev_vt, ready>>

\* ------------------------------------------------------------------------
\* C library helpers on flat buffers
\* ------------------------------------------------------------------------
InBuf(buf, off, len) == len <= 0 \/ (off \in DOMAIN buf /\ (off + len - 1) \in DOMAIN buf)

\* memset(buf + off, val, len)
memset(buf, off, val, len) ==
    [i \in DOMAIN buf |-> IF off <= i /\ i < off + len THEN val ELSE buf[i]]

\* memmove(buf + dst, buf + src, len): copies as if through a temporary
memmove(buf, dst, src, len) ==
    [i \in DOMAIN buf |->
        IF dst <= i /\ i < dst + len /\ (src + (i - dst)) \in DOMAIN buf
        THEN buf[src + (i - dst)] ELSE buf[i]]

\* the three buffers of term_data, with a record of any access that falls
\* outside the allocation
memset_chbuf(t, off, val, len) ==
    [t EXCEPT !.chbuf = memset(@, off, val, len),
              !.oob = @ \/ ~InBuf(t.chbuf, off, len)]
memset_grbuf(t, off, val, len) ==
    [t EXCEPT !.grbuf = memset(@, off, val, len),
              !.oob = @ \/ ~InBuf(t.grbuf, off, len)]
memset_linebuf(t, off, val, len) ==
    [t EXCEPT !.must_refresh_line_buf = memset(@, off, val, len),
              !.oob = @ \/ ~InBuf(t.must_refresh_line_buf, off, len)]
memmove_chbuf(t, dst, src, len) ==
    [t EXCEPT !.chbuf = memmove(@, dst, src, len),
              !.oob = @ \/ ~InBuf(t.chbuf, dst, len) \/ ~InBuf(t.chbuf, src, len)]
memmove_grbuf(t, dst, src, len) ==
    [t EXCEPT !.grbuf = memmove(@, dst, src, len),
              !.oob = @ \/ ~InBuf(t.grbuf, dst, len) \/ ~InBuf(t.grbuf, src, len)]
set_line_flag(t, y) ==
    [t EXCEPT !.must_refresh_line_buf = memset(@, y, TRUE, 1),
              !.oob = @ \/ ~InBuf(t.must_refresh_line_buf, y, 1)]

\* bitwise or of two non-negative integers
RECURSIVE BitOr(_, _)
BitOr(a, b) ==
    IF a = 0 THEN b
    ELSE IF b = 0 THEN a
    ELSE (IF (a % 2 = 1) \/ (b % 2 = 1) THEN 1 ELSE 0) + 2 * BitOr(a \div 2, b \div 2)

\* ------------------------------------------------------------------------
\* backend operations
\* ------------------------------------------------------------------------
\* mutant: the right edge is tested with > instead of >=
move_cursor_relative_edge(t, dx, dy) ==
    LET x1 == t.cursor_x + dx
        y1 == t.cursor_y + dy
        x2 == IF x1 < 0 THEN 0 ELSE x1
        y2 == IF y1 < t.margin_top THEN t.margin_top ELSE y1
        x3 == IF x2 > t.con_width THEN t.con_width - 1 ELSE x2
        y3 == IF y2 > t.margin_bottom THEN t.margin_bottom ELSE y2
    IN [t EXCEPT !.cursor_x = x3, !.cursor_y = y3, !.must_refresh = TRUE]

\* mutant: the move does not set must_refresh
move_cursor_relative_silent(t, dx, dy) ==
    LET x1 == t.cursor_x + dx
        y1 == t.cursor_y + dy
        x2 == IF x1 < 0 THEN 0 ELSE x1
        y2 == IF y1 < t.margin_top THEN t.margin_top ELSE y1
        x3 == IF x2 >= t.con_width THEN t.con_width - 1 ELSE x2
        y3 == IF y2 > t.margin_bottom THEN t.margin_bottom ELSE y2
    IN [t EXCEPT !.cursor_x = x3, !.cursor_y = y3]

move_cursor_relative(t, dx, dy) ==
    LET x1 == t.cursor_x + dx
        y1 == t.cursor_y + dy
        x2 == IF x1 < 0 THEN 0 ELSE x1
        y2 == IF y1 < t.margin_top THEN t.margin_top ELSE y1
        x3 == IF x2 >= t.con_width THEN t.con_width - 1 ELSE x2
        y3 == IF y2 > t.margin_bottom THEN t.margin_bottom ELSE y2
    IN [t EXCEPT !.cursor_x = x3, !.cursor_y = y3, !.must_refresh = TRUE]

\* mutant: the right edge test is off by one
move_cursor_absolute_edge(t, x, y) ==
    LET x2 == IF x < 0 THEN 0 ELSE x
        y2 == IF y < t.margin_top THEN t.margin_top ELSE y
        x3 == IF x2 > t.con_width THEN t.con_width - 1 ELSE x2
        y3 == IF y2 > t.margin_bottom THEN t.margin_bottom ELSE y2
    IN [t EXCEPT !.cursor_x = x3, !.cursor_y = y3, !.must_refresh = TRUE]

move_cursor_absolute(t, x, y) ==
    LET x2 == IF x < 0 THEN 0 ELSE x
        y2 == IF y < t.margin_top THEN t.margin_top ELSE y
        x3 == IF x2 > t.con_width - 1 THEN t.con_width - 1 ELSE x2
        y3 == IF y2 > t.margin_bottom THEN t.margin_bottom ELSE y2
    IN [t EXCEPT !.cursor_x = x3, !.cursor_y = y3, !.must_refresh = TRUE]

move_cursor_column_absolute(t, x) == move_cursor_absolute(t, x, t.cursor_y)

\* mutant: the scroll moves the characters but not their renditions
handle_linefeed_chars_only(t) ==
    LET w == t.con_width
        n == (t.margin_bottom - t.margin_top) * w
        s1 == memmove_chbuf(t, t.margin_top * w, (t.margin_top + 1) * w, n)
        s3 == memset_chbuf(s1, t.margin_bottom * w, SPACE, w)
        s4 == memset_grbuf(s3, t.margin_bottom * w, 0, w)
        s5 == memset_linebuf(s4, t.margin_top, TRUE,
                             t.margin_bottom - t.margin_top + 1)
        t1 == IF t.cursor_y = t.margin_bottom THEN s5 ELSE t
        t2 == move_cursor_absolute(t1, t1.cursor_x, t1.cursor_y + 1)
    IN [t2 EXCEPT !.must_refresh = TRUE]

\* mutant: the refresh flags are set for one row too few
handle_linefeed_flags(t) ==
    LET w == t.con_width
        n == (t.margin_bottom - t.margin_top) * w
        s1 == memmove_chbuf(t, t.margin_top * w, (t.margin_top + 1) * w, n)
        s2 == memmove_grbuf(s1, t.margin_top * w, (t.margin_top + 1) * w, n)
        s3 == memset_chbuf(s2, t.margin_bottom * w, SPACE, w)
        s4 == memset_grbuf(s3, t.margin_bottom * w, 0, w)
        s5 == memset_linebuf(s4, t.margin_top, TRUE,
                             t.margin_bottom - t.margin_top)
        t1 == IF t.cursor_y = t.margin_bottom THEN s5 ELSE t
        t2 == move_cursor_absolute(t1, t1.cursor_x, t1.cursor_y + 1)
    IN [t2 EXCEPT !.must_refresh = TRUE]

\* mutant: the region scrolls whenever the cursor is at or below margin_bottom
handle_linefeed_below(t) ==
    LET w == t.con_width
        n == (t.margin_bottom - t.margin_top) * w
        s1 == memmove_chbuf(t, t.margin_top * w, (t.margin_top + 1) * w, n)
        s2 == memmove_grbuf(s1, t.margin_top * w, (t.margin_top + 1) * w, n)
        s3 == memset_chbuf(s2, t.margin_bottom * w, SPACE, w)
        s4 == memset_grbuf(s3, t.margin_bottom * w, 0, w)
        s5 == memset_linebuf(s4, t.margin_top, TRUE,
                             t.margin_bottom - t.margin_top + 1)
        t1 == IF t.cursor_y >= t.margin_bottom THEN s5 ELSE t
        t2 == move_cursor_absolute(t1, t1.cursor_x, t1.cursor_y + 1)
    IN [t2 EXCEPT !.must_refresh = TRUE]

handle_linefeed(t) ==
    LET w == t.con_width
        n == (t.margin_bottom - t.margin_top) * w
        s1 == memmove_chbuf(t, t.margin_top * w, (t.margin_top + 1) * w, n)
        s2 == memmove_grbuf(s1, t.margin_top * w, (t.margin_top + 1) * w, n)
        s3 == memset_chbuf(s2, t.margin_bottom * w, SPACE, w)
        s4 == memset_grbuf(s3, t.margin_bottom * w, 0, w)
        s5 == memset_linebuf(s4, t.margin_top, TRUE,
                             t.margin_bottom - t.margin_top + 1)
        t1 == IF t.cursor_y = t.margin_bottom THEN s5 ELSE t
        t2 == move_cursor_absolute(t1, t1.cursor_x, t1.cursor_y + 1)
    IN [t2 EXCEPT !.must_refresh = TRUE]

\* the rendition byte display_char stores: fg | (bg << 4), in an unsigned char
PackRendition(fg, bg) == BitOr(fg, bg * 16) % 256

\* mutant: every wrap at the last column goes through handle_linefeed
display_char_wrap_lf(t, ch) ==
    IF t.cursor_x >= t.con_width \/ t.cursor_y >= t.con_height
    THEN [t EXCEPT !.crashed = TRUE]
    ELSE
    LET cx == t.cursor_x
        cy == t.cursor_y
        w == t.con_width
        s1 == memset_chbuf(t, cy * w + cx, ch % 256, 1)
        s2 == memset_grbuf(s1, cy * w + cx,
                           PackRendition(t.cur_fg_gc_idx, t.cur_bg_gc_idx), 1)
        s3 == set_line_flag(s2, cy)
        t1 == IF cx + 1 = w
              THEN handle_linefeed([s3 EXCEPT !.cursor_x = 0, !.cursor_y = cy])
              ELSE [s3 EXCEPT !.cursor_x = cx + 1]
    IN [t1 EXCEPT !.must_refresh = TRUE]

\* mutant: cursor_y is not stepped back before the linefeed at the bottom
display_char_no_stepback(t, ch) ==
    IF t.cursor_x >= t.con_width \/ t.cursor_y >= t.con_height
    THEN [t EXCEPT !.crashed = TRUE]
    ELSE
    LET cx == t.cursor_x
        cy == t.cursor_y
        w == t.con_width
        s1 == memset_chbuf(t, cy * w + cx, ch % 256, 1)
        s2 == memset_grbuf(s1, cy * w + cx,
                           PackRendition(t.cur_fg_gc_idx, t.cur_bg_gc_idx), 1)
        s3 == set_line_flag(s2, cy)
        t1 == IF cx + 1 = w
              THEN IF cy + 1 = t.con_height
                   THEN handle_linefeed([s3 EXCEPT !.cursor_x = 0, !.cursor_y = cy + 1])
                   ELSE set_line_flag([s3 EXCEPT !.cursor_x = 0, !.cursor_y = cy + 1],
                                      cy + 1)
              ELSE [s3 EXCEPT !.cursor_x = cx + 1]
    IN [t1 EXCEPT !.must_refresh = TRUE]

\* the two guards store through a null pointer: the process does not
\* survive them, which is recorded in crashed; the handle_linefeed entry
\* of the backend table is the default one
display_char(t, ch) ==
    IF t.cursor_x >= t.con_width \/ t.cursor_y >= t.con_height
    THEN [t EXCEPT !.crashed = TRUE]
    ELSE
    LET cx == t.cursor_x
        cy == t.cursor_y
        w == t.con_width
        s1 == memset_chbuf(t, cy * w + cx, ch % 256, 1)
        s2 == memset_grbuf(s1, cy * w + cx,
                           PackRendition(t.cur_fg_gc_idx, t.cur_bg_gc_idx), 1)
        s3 == set_line_flag(s2, cy)
        t1 == IF cx + 1 = w
              THEN IF cy + 1 = t.con_height
                   THEN handle_linefeed([s3 EXCEPT !.cursor_x = 0, !.cursor_y = cy])
                   ELSE set_line_flag([s3 EXCEPT !.cursor_x = 0, !.cursor_y = cy + 1],
                                      cy + 1)
              ELSE [s3 EXCEPT !.cursor_x = cx + 1]
    IN [t1 EXCEPT !.must_refresh = TRUE]

erase_line_at_cursor(t) ==
    LET w == t.con_width
        s1 == memset_chbuf(t, t.cursor_y * w, SPACE, w)
        s2 == memset_grbuf(s1, t.cursor_y * w, 0, w)
        s3 == set_line_flag(s2, t.cursor_y)
    IN [s3 EXCEPT !.must_refresh = TRUE]

\* mutant: the cell at the cursor is left out of the erased range
erase_line_from_beginning_exclusive(t) ==
    LET w == t.con_width
        s1 == memset_chbuf(t, t.cursor_y * w, SPACE, t.cursor_x)
        s2 == memset_grbuf(s1, t.cursor_y * w, 0, t.cursor_x)
        s3 == set_line_flag(s2, t.cursor_y)
    IN [s3 EXCEPT !.must_refresh = TRUE]

erase_line_from_beginning_to_cursor(t) ==
    LET w == t.con_width
        s1 == memset_chbuf(t, t.cursor_y * w, SPACE, t.cursor_x + 1)
        s2 == memset_grbuf(s1, t.cursor_y * w, 0, t.cursor_x + 1)
        s3 == set_line_flag(s2, t.cursor_y)
    IN [s3 EXCEPT !.must_refresh = TRUE]

erase_line_from_cursor_to_end(t) ==
    LET w == t.con_width
        s1 == memset_chbuf(t, t.cursor_y * w + t.cursor_x, SPACE, w - t.cursor_x)
        s2 == memset_grbuf(s1, t.cursor_y * w + t.cursor_x, 0, w - t.cursor_x)
        s3 == set_line_flag(s2, t.cursor_y)
    IN [s3 EXCEPT !.must_refresh = TRUE]

\* mutant: the renditions are not erased
erase_display_chars_only(t) ==
    LET s1 == memset_chbuf(t, 0, SPACE, t.con_height * t.con_width)
        s3 == memset_linebuf(s1, 0, TRUE, t.con_height)
    IN [s3 EXCEPT !.must_refresh = TRUE]

erase_display(t) ==
    LET s1 == memset_chbuf(t, 0, SPACE, t.con_height * t.con_width)
        s2 == memset_grbuf(s1, 0, 0, t.con_height * t.con_width)
        s3 == memset_linebuf(s2, 0, TRUE, t.con_height)
    IN [s3 EXCEPT !.must_refresh = TRUE]

\* mutant: the rows above the cursor are erased, then the whole cursor row
erase_display_from_beginning_whole_row(t) ==
    LET n == t.cursor_y * t.con_width
        s1 == memset_chbuf(t, 0, SPACE, n)
        s2 == memset_grbuf(s1, 0, 0, n)
        s3 == memset_linebuf(s2, 0, TRUE, t.cursor_y + 1)
        s4 == erase_line_at_cursor(s3)
    IN [s4 EXCEPT !.must_refresh = TRUE]

erase_display_from_beginning_to_cursor(t) ==
    LET n == t.cursor_y * t.con_width + t.cursor_x + 1
        s1 == memset_chbuf(t, 0, SPACE, n)
        s2 == memset_grbuf(s1, 0, 0, n)
        s3 == memset_linebuf(s2, 0, TRUE, t.cursor_y + 1)
        s4 == erase_line_from_beginning_to_cursor(s3)
    IN [s4 EXCEPT !.must_refresh = TRUE]

erase_display_from_cursor_to_end(t) ==
    LET off == t.cursor_y * t.con_width + t.cursor_x
        n == t.con_width * t.con_height - off
        s1 == memset_chbuf(t, off, SPACE, n)
        s2 == memset_grbuf(s1, off, 0, n)
        s3 == memset_linebuf(s2, t.cursor_y, TRUE, t.con_height - t.cursor_y)
        s4 == erase_line_from_cursor_to_end(s3)
    IN [s4 EXCEPT !.must_refresh = TRUE]

\* mutant: a destructive backspace, which blanks the cell it moves onto
handle_backspace_erasing(t) ==
    LET t1 == move_cursor_relative(t, -1, 0)
        t2 == memset_chbuf(t1, t1.cursor_y * t1.con_width + t1.cursor_x, SPACE, 1)
    IN [t2 EXCEPT !.must_refresh = TRUE]

handle_backspace(t) ==
    [move_cursor_relative(t, -1, 0) EXCEPT !.must_refresh = TRUE]

\* (x + 8) & ~7 for a non-negative x
NextTabStop(x) == ((x + 8) \div 8) * 8

\* while (i--) display_char(tdata, ' ', state)
RECURSIVE display_spaces(_, _)
display_spaces(t, i) ==
    IF i = 0 \/ t.crashed THEN t
    ELSE display_spaces(display_char(t, SPACE), i - 1)

handle_horiz_tab(t) ==
    LET i == NextTabStop(t.cursor_x) - t.cursor_x
    IN [display_spaces(t, i) EXCEPT !.must_refresh = TRUE]

\* mutant: the carriage return also steps to the next row
handle_carriage_return_newline(t) ==
    [move_cursor_absolute(t, 0, t.cursor_y + 1) EXCEPT !.must_refresh = TRUE]

handle_carriage_return(t) ==
    [move_cursor_absolute(t, 0, t.cursor_y) EXCEPT !.must_refresh = TRUE]

\* mutant: setting the margins also homes the cursor
set_top_and_bottom_margins_homes(t, top, bottom) ==
    LET top1 == IF top < 0 THEN 0 ELSE top
        top2 == IF top1 >= t.con_height - 2 THEN t.con_height - 2 ELSE top1
        bot1 == IF bottom <= top2 THEN top2 + 1 ELSE bottom
        bot2 == IF bot1 >= t.con_height - 1 THEN t.con_height - 1 ELSE bot1
    IN [t EXCEPT !.margin_top = top2, !.margin_bottom = bot2,
                 !.cursor_x = 0, !.cursor_y = 0]

\* mutant: bottom is raised only when it is below top, not when equal
set_top_and_bottom_margins_equal(t, top, bottom) ==
    LET top1 == IF top < 0 THEN 0 ELSE top
        top2 == IF top1 >= t.con_height - 2 THEN t.con_height - 2 ELSE top1
        bot1 == IF bottom < top2 THEN top2 + 1 ELSE bottom
        bot2 == IF bot1 >= t.con_height - 1 THEN t.con_height - 1 ELSE bot1
    IN [t EXCEPT !.margin_top = top2, !.margin_bottom = bot2]

set_top_and_bottom_margins(t, top, bottom) ==
    LET top1 == IF top < 0 THEN 0 ELSE top
        top2 == IF top1 >= t.con_height - 2 THEN t.con_height - 2 ELSE top1
        bot1 == IF bottom <= top2 THEN top2 + 1 ELSE bottom
        bot2 == IF bot1 >= t.con_height - 1 THEN t.con_height - 1 ELSE bot1
    IN [t EXCEPT !.margin_top = top2, !.margin_bottom = bot2]

\* mutant: the rows move down without their renditions
insert_lines_chars_only(t, nr_lines) ==
    IF ~(t.margin_top <= t.cursor_y /\ t.cursor_y <= t.margin_bottom)
    THEN t
    ELSE
    LET w == t.con_width
        i == t.cursor_y + nr_lines
        n == IF i > t.margin_bottom THEN t.margin_bottom - t.cursor_y + 1 ELSE nr_lines
        m1 == memmove_chbuf(t, i * w, t.cursor_y * w, (t.margin_bottom - i + 1) * w)
        s0 == IF i > t.margin_bottom THEN t ELSE m1
        s1 == memset_chbuf(s0, t.cursor_y * w, SPACE, n * w)
        s2 == memset_grbuf(s1, t.cursor_y * w, 0, n * w)
        s3 == memset_linebuf(s2, t.cursor_y, TRUE, t.margin_bottom - t.cursor_y + 1)
    IN [s3 EXCEPT !.must_refresh = TRUE]

\* mutant: the line count is not cut at the bottom margin
insert_lines_at_cursor_uncut(t, nr_lines) ==
    IF ~(t.margin_top <= t.cursor_y /\ t.cursor_y <= t.margin_bottom)
    THEN t
    ELSE
    LET w == t.con_width
        i == t.cursor_y + nr_lines
        m1 == memmove_chbuf(t, i * w, t.cursor_y * w, (t.margin_bottom - i + 1) * w)
        m2 == memmove_grbuf(m1, i * w, t.cursor_y * w, (t.margin_bottom - i + 1) * w)
        s0 == IF i > t.margin_bottom THEN t ELSE m2
        s1 == memset_chbuf(s0, t.cursor_y * w, SPACE, nr_lines * w)
        s2 == memset_grbuf(s1, t.cursor_y * w, 0, nr_lines * w)
        s3 == memset_linebuf(s2, t.cursor_y, TRUE, t.margin_bottom - t.cursor_y + 1)
    IN [s3 EXCEPT !.must_refresh = TRUE]

insert_lines_at_cursor(t, nr_lines) ==
    IF ~(t.margin_top <= t.cursor_y /\ t.cursor_y <= t.margin_bottom)
    THEN t
    ELSE
    LET w == t.con_width
        i == t.cursor_y + nr_lines
        n == IF i > t.margin_bottom THEN t.margin_bottom - t.cursor_y + 1 ELSE nr_lines
        m1 == memmove_chbuf(t, i * w, t.cursor_y * w, (t.margin_bottom - i + 1) * w)
        m2 == memmove_grbuf(m1, i * w, t.cursor_y * w, (t.margin_bottom - i + 1) * w)
        s0 == IF i > t.margin_bottom THEN t ELSE m2
        s1 == memset_chbuf(s0, t.cursor_y * w, SPACE, n * w)
        s2 == memset_grbuf(s1, t.cursor_y * w, 0, n * w)
        s3 == memset_linebuf(s2, t.cursor_y, TRUE, t.margin_bottom - t.cursor_y + 1)
    IN [s3 EXCEPT !.must_refresh = TRUE]

\* mutant: the rows move up without their renditions
delete_lines_chars_only(t, nr_lines) ==
    IF ~(t.margin_top <= t.cursor_y /\ t.cursor_y <= t.margin_bottom)
    THEN t
    ELSE
    LET w == t.con_width
        i == t.cursor_y + nr_lines
        n == IF i > t.margin_bottom THEN t.margin_bottom - t.cursor_y + 1 ELSE nr_lines
        m1 == memmove_chbuf(t, t.cursor_y * w, i * w, (t.margin_bottom - i + 1) * w)
        s0 == IF i > t.margin_bottom THEN t ELSE m1
        s1 == memset_chbuf(s0, (t.margin_bottom - n + 1) * w, SPACE, n * w)
        s2 == memset_grbuf(s1, (t.margin_bottom - n + 1) * w, 0, n * w)
        s3 == memset_linebuf(s2, t.cursor_y, TRUE, t.margin_bottom - t.cursor_y + 1)
    IN [s3 EXCEPT !.must_refresh = TRUE]

\* mutant: only the bottom margin is tested before deleting
delete_lines_no_top_test(t, nr_lines) ==
    IF ~(t.cursor_y <= t.margin_bottom)
    THEN t
    ELSE
    LET w == t.con_width
        i == t.cursor_y + nr_lines
        n == IF i > t.margin_bottom THEN t.margin_bottom - t.cursor_y + 1 ELSE nr_lines
        m1 == memmove_chbuf(t, t.cursor_y * w, i * w, (t.margin_bottom - i + 1) * w)
        m2 == memmove_grbuf(m1, t.cursor_y * w, i * w, (t.margin_bottom - i + 1) * w)
        s0 == IF i > t.margin_bottom THEN t ELSE m2
        s1 == memset_chbuf(s0, (t.margin_bottom - n + 1) * w, SPACE, n * w)
        s2 == memset_grbuf(s1, (t.margin_bottom - n + 1) * w, 0, n * w)
        s3 == memset_linebuf(s2, t.cursor_y, TRUE, t.margin_bottom - t.cursor_y + 1)
    IN [s3 EXCEPT !.must_refresh = TRUE]

delete_lines_at_cursor(t, nr_lines) ==
    IF ~(t.margin_top <= t.cursor_y /\ t.cursor_y <= t.margin_bottom)
    THEN t
    ELSE
    LET w == t.con_width
        i == t.cursor_y + nr_lines
        n == IF i > t.margin_bottom THEN t.margin_bottom - t.cursor_y + 1 ELSE nr_lines
        m1 == memmove_chbuf(t, t.cursor_y * w, i * w, (t.margin_bottom - i + 1) * w)
        m2 == memmove_grbuf(m1, t.cursor_y * w, i * w, (t.margin_bottom - i + 1) * w)
        s0 == IF i > t.margin_bottom THEN t ELSE m2
        s1 == memset_chbuf(s0, (t.margin_bottom - n + 1) * w, SPACE, n * w)
        s2 == memset_grbuf(s1, (t.margin_bottom - n + 1) * w, 0, n * w)
        s3 == memset_linebuf(s2, t.cursor_y, TRUE, t.margin_bottom - t.cursor_y + 1)
    IN [s3 EXCEPT !.must_refresh = TRUE]

\* only chbuf is shifted and filled; grbuf is not touched by the source
delete_characters_at_cursor(t, nr_characters) ==
    IF nr_characters <= 0
    THEN t
    ELSE
    LET w == t.con_width
        i == w - t.cursor_x
        n == IF nr_characters > i THEN i ELSE nr_characters
        s1 == memmove_chbuf(t, t.cursor_y * w + t.cursor_x,
                            t.cursor_y * w + t.cursor_x + n, i - n)
        s2 == memset_chbuf(s1, (t.cursor_y + 1) * w - n, SPACE, n)
        s3 == set_line_flag(s2, t.cursor_y)
    IN [s3 EXCEPT !.must_refresh = TRUE]

\* the vacated row of grbuf is filled with ' ' (0x20), and the cursor is
\* moved by (cursor_x, -1), as in the source
cursor_reverse_index(t) ==
    LET w == t.con_width
        n == (t.margin_bottom - t.margin_top) * w
        s1 == memmove_chbuf(t, (t.margin_top + 1) * w, t.margin_top * w, n)
        s2 == memmove_grbuf(s1, (t.margin_top + 1) * w, t.margin_top * w, n)
        s3 == memset_chbuf(s2, t.margin_top * w, SPACE, w)
        s4 == memset_grbuf(s3, t.margin_top * w, SPACE, w)
        s5 == memset_linebuf(s4, t.margin_top, TRUE,
                             t.margin_bottom - t.margin_top + 1)
        t1 == IF t.cursor_y = t.margin_top THEN s5 ELSE t
        t2 == move_cursor_relative(t1, t1.cursor_x, -1)
    IN [t2 EXCEPT !.must_refresh = TRUE]

\* one iteration of the switch in select_graphic_rendition
\* mutant: 38 and 39 are taken as foreground colours 8 and 9
sgr_param_wide(t, p) ==
    IF p = 0 THEN [t EXCEPT !.cur_fg_gc_idx = 7, !.cur_bg_gc_idx = 0]
    ELSE IF 30 <= p /\ p <= 39 THEN [t EXCEPT !.cur_fg_gc_idx = p - 30]
    ELSE IF 40 <= p /\ p <= 47 THEN [t EXCEPT !.cur_bg_gc_idx = p - 40]
    ELSE IF p = 49 THEN [t EXCEPT !.cur_bg_gc_idx = 0]
    ELSE IF p = 7 THEN [t EXCEPT !.cur_bg_gc_idx = t.cur_fg_gc_idx,
                                 !.cur_fg_gc_idx = t.cur_bg_gc_idx]
    ELSE t

\* mutant: the negative image case is missing
sgr_param_no_swap(t, p) ==
    IF p = 0 THEN [t EXCEPT !.cur_fg_gc_idx = 7, !.cur_bg_gc_idx = 0]
    ELSE IF 30 <= p /\ p <= 37 THEN [t EXCEPT !.cur_fg_gc_idx = p - 30]
    ELSE IF p = 39 THEN [t EXCEPT !.cur_fg_gc_idx = 7]
    ELSE IF 40 <= p /\ p <= 47 THEN [t EXCEPT !.cur_bg_gc_idx = p - 40]
    ELSE IF p = 49 THEN [t EXCEPT !.cur_bg_gc_idx = 0]
    ELSE t

sgr_param(t, p) ==
    IF p = 0 THEN [t EXCEPT !.cur_fg_gc_idx = 7, !.cur_bg_gc_idx = 0]
    ELSE IF 30 <= p /\ p <= 37 THEN [t EXCEPT !.cur_fg_gc_idx = p - 30]
    ELSE IF p = 39 THEN [t EXCEPT !.cur_fg_gc_idx = 7]
    ELSE IF 40 <= p /\ p <= 47 THEN [t EXCEPT !.cur_bg_gc_idx = p - 40]
    ELSE IF p = 49 THEN [t EXCEPT !.cur_bg_gc_idx = 0]
    ELSE IF p = 7 THEN [t EXCEPT !.cur_bg_gc_idx = t.cur_fg_gc_idx,
                                 !.cur_fg_gc_idx = t.cur_bg_gc_idx]
    ELSE t

RECURSIVE sgr_from(_, _, _)
sgr_from(t, cmd_params, i) ==
    IF i > Len(cmd_params) THEN t
    ELSE sgr_from(sgr_param(t, cmd_params[i]), cmd_params, i + 1)

select_graphic_rendition(t, cmd_params) == sgr_from(t, cmd_params, 1)

\* ------------------------------------------------------------------------
\* the host's query_terminal_id and the parser's CSI dispatch
\* ------------------------------------------------------------------------
\* the bytes query_terminal_id writes to comm_fd: the write of "\x1b[?6c"
\* is commented out in both hosts, only a line goes to stdout
query_terminal_id(t) == << >>

\* parameter i (counted from 0) of a control sequence, 0 when absent
csi_param(params, i) == IF i < Len(params) THEN params[i + 1] ELSE 0
\* "p or 1": a parameter that is absent or 0 counts as 1
csi_param_or_1(params, i) ==
    IF csi_param(params, i) = 0 THEN 1 ELSE csi_param(params, i)

\* CSI H / CSI f (CUP)
csi_cup(t, params) ==
    move_cursor_absolute(t, csi_param_or_1(params, 1) - 1,
                         csi_param_or_1(params, 0) - 1)

\* CSI r (DECSTBM)
csi_decstbm(t, params) ==
    set_top_and_bottom_margins(t, csi_param(params, 0) - 1,
                               csi_param(params, 1) - 1)

\* CSI c (DA): the request is handed to the query_terminal_id entry of the
\* backend table; the screen is not touched
csi_da(t, params) == query_terminal_id(t)

\* "p1": the first parameter when present, else 1
csi_p1(params) == IF Len(params) >= 1 THEN params[1] ELSE 1
\* max(p1, 1)
csi_count(params) == IF csi_p1(params) < 1 THEN 1 ELSE csi_p1(params)

\* decimal digits of a number, as bytes
RECURSIVE Decimal(_)
Decimal(n) ==
    IF n < 10 THEN <<48 + n>> ELSE Decimal(n \div 10) \o <<48 + (n % 10)>>

\* what one dispatch does: the screen after it, the bytes sent back and the
\* entry of the backend table it called
Dispatched(t, out, called) == [t |-> t, out |-> out, called |-> called]

\* the final bytes of the dispatch table: @ A B C D G H f J K L M P c d h l
\* m n r
DispatchFinals ==
    {64, 65, 66, 67, 68, 71, 72, 102, 74, 75, 76, 77, 80, 99, 100, 104, 108,
     109, 110, 114}

\* the rows of the dispatch table
csi_table(t, final, params) ==
    CASE final = 65 ->
            Dispatched(move_cursor_relative(t, 0, 0 - csi_p1(params)),
                       << >>, "move_cursor_relative")
      [] final = 66 ->
            Dispatched(move_cursor_relative(t, 0, csi_p1(params)),
                       << >>, "move_cursor_relative")
      [] final = 67 ->
            Dispatched(move_cursor_relative(t, csi_p1(params), 0),
                       << >>, "move_cursor_relative")
      [] final = 68 ->
            Dispatched(move_cursor_relative(t, 0 - csi_p1(params), 0),
                       << >>, "move_cursor_relative")
      [] final = 71 ->
            Dispatched(move_cursor_column_absolute(t, csi_p1(params) - 1),
                       << >>, "move_cursor_column_absolute")
      [] final \in {72, 102} ->
            Dispatched(csi_cup(t, params), << >>, "move_cursor_absolute")
      [] final = 74 /\ csi_param(params, 0) = 0 ->
            Dispatched(erase_display_from_cursor_to_end(t), << >>,
                       "erase_display_from_cursor_to_end")
      [] final = 74 /\ csi_param(params, 0) = 1 ->
            Dispatched(erase_display_from_beginning_to_cursor(t), << >>,
                       "erase_display_from_beginning_to_cursor")
      [] final = 74 /\ csi_param(params, 0) = 2 ->
            Dispatched(erase_display(t), << >>, "erase_display")
      [] final = 75 /\ csi_param(params, 0) = 0 ->
            Dispatched(erase_line_from_cursor_to_end(t), << >>,
                       "erase_line_from_cursor_to_end")
      [] final = 75 /\ csi_param(params, 0) = 1 ->
            Dispatched(erase_line_from_beginning_to_cursor(t), << >>,
                       "erase_line_from_beginning_to_cursor")
      [] final = 75 /\ csi_param(params, 0) = 2 ->
            Dispatched(erase_line_at_cursor(t), << >>, "erase_line_at_cursor")
      [] final = 76 ->
            Dispatched(insert_lines_at_cursor(t, csi_count(params)), << >>,
                       "insert_lines_at_cursor")
      [] final = 77 ->
            Dispatched(delete_lines_at_cursor(t, csi_count(params)), << >>,
                       "delete_lines_at_cursor")
      [] final = 80 ->
            Dispatched(delete_characters_at_cursor(t, csi_count(params)),
                       << >>, "delete_characters_at_cursor")
      [] final = 99 ->
            Dispatched(t, csi_da(t, params), "query_terminal_id")
      [] final = 100 ->
            Dispatched(move_cursor_absolute(t, t.cursor_x,
                                            csi_p1(params) - 1),
                       << >>, "move_cursor_absolute")
      [] final = 109 ->
            Dispatched(select_graphic_rendition(
                           t, IF params = << >> THEN <<0>> ELSE params),
                       << >>, "select_graphic_rendition")
      [] final = 110 /\ csi_param(params, 0) = 6 ->
            Dispatched(t, <<27, 91>> \o Decimal(t.cursor_y + 1) \o <<59>>
                              \o Decimal(t.cursor_x + 1) \o <<82>>,
                       "none")
      [] final = 114 ->
            Dispatched(csi_decstbm(t, params), << >>,
                       "set_top_and_bottom_margins")
      [] OTHER -> Dispatched(t, << >>, "none")

\* mutant: a final byte that is not in the table is taken as CUP
csi_dispatch_default_cup(t, final, params) ==
    IF final \in DispatchFinals
    THEN csi_table(t, final, params)
    ELSE csi_table(t, 72, params)

\* the dispatch of a complete control sequence on its final byte; a final
\* byte that is not in the table is ignored
csi_dispatch(t, final, params) ==
    IF final \in DispatchFinals
    THEN csi_table(t, final, params)
    ELSE Dispatched(t, << >>, "none")

\* ------------------------------------------------------------------------
\* the command parser
\* ------------------------------------------------------------------------
\* the parser state as it is created, and as it is after every sequence;
\* the slot of the saved cursor lives on
ground_state(saved) ==
    [mode |-> "Ground",
     params |-> << >>,
     cur |-> -1,
     private_marker |-> 0,
     intermediates |-> << >>,
     osc_esc |-> FALSE,
     saved |-> saved]

\* what one input byte does: the parser state and the screen after it, the
\* bytes sent back and the entry of the backend table that was called
Fed(v, d) == [vt |-> v, t |-> d.t, out |-> d.out, called |-> d.called]

parser_ground(v, t, b) ==
    CASE b = 8 -> Fed(v, Dispatched(handle_backspace(t), << >>,
                                    "handle_backspace"))
      [] b = 9 -> Fed(v, Dispatched(handle_horiz_tab(t), << >>,
                                    "handle_horiz_tab"))
      [] b \in {10, 11, 12} ->
            Fed(v, Dispatched(handle_linefeed(t), << >>, "handle_linefeed"))
      [] b = 13 -> Fed(v, Dispatched(handle_carriage_return(t), << >>,
                                     "handle_carriage_return"))
      [] b = 27 -> Fed([v EXCEPT !.mode = "Esc"],
                       Dispatched(t, << >>, "none"))
      [] b >= 32 -> Fed(v, Dispatched(display_char(t, b), << >>,
                                      "display_char"))
      [] OTHER -> Fed(v, Dispatched(t, << >>, "none"))

\* RIS: cursor home, full margins, default rendition, erased display
parser_reset_screen(t) ==
    [erase_display(t) EXCEPT !.cursor_x = 0,
                             !.cursor_y = 0,
                             !.margin_top = 0,
                             !.margin_bottom = t.con_height - 1,
                             !.cur_fg_gc_idx = 7,
                             !.cur_bg_gc_idx = 0]

parser_esc(v, t, b) ==
    CASE b = 91 -> Fed([ground_state(v.saved) EXCEPT !.mode = "Csi"],
                       Dispatched(t, << >>, "none"))
      [] b = 93 -> Fed([ground_state(v.saved) EXCEPT !.mode = "OscString"],
                       Dispatched(t, << >>, "none"))
      [] b = 77 -> Fed(ground_state(v.saved),
                       Dispatched(cursor_reverse_index(t), << >>,
                                  "cursor_reverse_index"))
      [] b = 55 ->
            Fed(ground_state(<<t.cursor_x, t.cursor_y,
                               t.cur_fg_gc_idx, t.cur_bg_gc_idx>>),
                Dispatched(t, << >>, "none"))
      [] b = 56 /\ v.saved # << >> ->
            Fed(ground_state(v.saved),
                Dispatched([t EXCEPT !.cursor_x = v.saved[1],
                                     !.cursor_y = v.saved[2],
                                     !.cur_fg_gc_idx = v.saved[3],
                                     !.cur_bg_gc_idx = v.saved[4]],
                           << >>, "none"))
      [] b = 99 -> Fed(ground_state(v.saved),
                       Dispatched(parser_reset_screen(t), << >>, "none"))
      [] OTHER -> Fed(ground_state(v.saved), Dispatched(t, << >>, "none"))

\* the parameter list at the final byte: the parameter being collected is
\* closed, an empty one counts as 0
parser_final_params(v) ==
    IF v.cur = -1 /\ v.params = << >> THEN << >>
    ELSE IF Len(v.params) < NR_MAX_PARAMS
    THEN Append(v.params, IF v.cur = -1 THEN 0 ELSE v.cur)
    ELSE v.params

\* mutant: the final byte leaves the collected parameters in place
parser_csi_keeps_params(v, t, b) ==
    CASE b \in 60 .. 63 ->
            Fed(IF v.cur = -1 /\ v.params = << >> /\ v.intermediates = << >>
                   /\ v.private_marker = 0
                THEN [v EXCEPT !.private_marker = b] ELSE v,
                Dispatched(t, << >>, "none"))
      [] b \in 48 .. 57 ->
            Fed([v EXCEPT !.cur =
                    LET n == (IF v.cur = -1 THEN 0 ELSE v.cur) * 10 + (b - 48)
                    IN IF n > PARAM_MAX THEN PARAM_MAX ELSE n],
                Dispatched(t, << >>, "none"))
      [] b = 59 ->
            Fed(IF Len(v.params) < NR_MAX_PARAMS
                THEN [v EXCEPT !.params =
                          Append(@, IF v.cur = -1 THEN 0 ELSE v.cur),
                               !.cur = -1]
                ELSE [v EXCEPT !.cur = -1],
                Dispatched(t, << >>, "none"))
      [] b \in 32 .. 47 ->
            Fed(IF Len(v.intermediates) < NR_MAX_INTERMEDIATES
                THEN [v EXCEPT !.intermediates = Append(@, b)] ELSE v,
                Dispatched(t, << >>, "none"))
      [] b \in 64 .. 126 ->
            Fed([v EXCEPT !.mode = "Ground"],
                csi_dispatch(t, b, parser_final_params(v)))
      [] OTHER -> Fed(ground_state(v.saved), Dispatched(t, << >>, "none"))

\* mutant: a linefeed inside a control sequence is carried out and the
\* sequence goes on
parser_csi_runs_controls(v, t, b) ==
    CASE b \in 60 .. 63 ->
            Fed(IF v.cur = -1 /\ v.params = << >> /\ v.intermediates = << >>
                   /\ v.private_marker = 0
                THEN [v EXCEPT !.private_marker = b] ELSE v,
                Dispatched(t, << >>, "none"))
      [] b \in 48 .. 57 ->
            Fed([v EXCEPT !.cur =
                    LET n == (IF v.cur = -1 THEN 0 ELSE v.cur) * 10 + (b - 48)
                    IN IF n > PARAM_MAX THEN PARAM_MAX ELSE n],
                Dispatched(t, << >>, "none"))
      [] b = 59 ->
            Fed(IF Len(v.params) < NR_MAX_PARAMS
                THEN [v EXCEPT !.params =
                          Append(@, IF v.cur = -1 THEN 0 ELSE v.cur),
                               !.cur = -1]
                ELSE [v EXCEPT !.cur = -1],
                Dispatched(t, << >>, "none"))
      [] b \in 32 .. 47 ->
            Fed(IF Len(v.intermediates) < NR_MAX_INTERMEDIATES
                THEN [v EXCEPT !.intermediates = Append(@, b)] ELSE v,
                Dispatched(t, << >>, "none"))
      [] b \in 64 .. 126 ->
            Fed(ground_state(v.saved),
                csi_dispatch(t, b, parser_final_params(v)))
      [] b \in {10, 11, 12} ->
            Fed(v, Dispatched(handle_linefeed(t), << >>, "handle_linefeed"))
      [] OTHER -> Fed(ground_state(v.saved), Dispatched(t, << >>, "none"))

parser_csi(v, t, b) ==
    CASE b \in 60 .. 63 ->
            Fed(IF v.cur = -1 /\ v.params = << >> /\ v.intermediates = << >>
                   /\ v.private_marker = 0
                THEN [v EXCEPT !.private_marker = b] ELSE v,
                Dispatched(t, << >>, "none"))
      [] b \in 48 .. 57 ->
            Fed([v EXCEPT !.cur =
                    LET n == (IF v.cur = -1 THEN 0 ELSE v.cur) * 10 + (b - 48)
                    IN IF n > PARAM_MAX THEN PARAM_MAX ELSE n],
                Dispatched(t, << >>, "none"))
      [] b = 59 ->
            Fed(IF Len(v.params) < NR_MAX_PARAMS
                THEN [v EXCEPT !.params =
                          Append(@, IF v.cur = -1 THEN 0 ELSE v.cur),
                               !.cur = -1]
                ELSE [v EXCEPT !.cur = -1],
                Dispatched(t, << >>, "none"))
      [] b \in 32 .. 47 ->
            Fed(IF Len(v.intermediates) < NR_MAX_INTERMEDIATES
                THEN [v EXCEPT !.intermediates = Append(@, b)] ELSE v,
                Dispatched(t, << >>, "none"))
      [] b \in 64 .. 126 ->
            Fed(ground_state(v.saved),
                csi_dispatch(t, b, parser_final_params(v)))
      [] OTHER -> Fed(ground_state(v.saved), Dispatched(t, << >>, "none"))

parser_osc(v, t, b) ==
    CASE b = 7 -> Fed(ground_state(v.saved), Dispatched(t, << >>, "none"))
      [] b = 92 /\ v.osc_esc ->
            Fed(ground_state(v.saved), Dispatched(t, << >>, "none"))
      [] OTHER -> Fed([v EXCEPT !.osc_esc = (b = 27)],
                      Dispatched(t, << >>, "none"))

vt102_command_input_parser(v, t, input_char) ==
    CASE v.mode = "Ground" -> parser_ground(v, t, input_char)
      [] v.mode = "Esc" -> parser_esc(v, t, input_char)
      [] v.mode = "Csi" -> parser_csi(v, t, input_char)
      [] v.mode = "OscString" -> parser_osc(v, t, input_char)

\* ------------------------------------------------------------------------
\* resize
\* ------------------------------------------------------------------------
\* mutant: the new height is not raised to the minimum
resize_buffers_no_min_rows(t, new_width, new_height) ==
    LET nw == IF new_width < NR_MIN_VT102_SCREEN_COLUMNS
              THEN NR_MIN_VT102_SCREEN_COLUMNS ELSE new_width
        nh == new_height
        w == IF t.con_width > nw THEN nw ELSE t.con_width
        h == IF t.con_height > nh THEN nh ELSE t.con_height
        Copied(i) == (i \div nw) < h /\ (i % nw) < w
        Old(i) == (i \div nw) * t.con_width + (i % nw)
        chbuf == [i \in 0 .. (nw * nh - 1) |->
                    IF Copied(i) THEN t.chbuf[Old(i)] ELSE SPACE]
        grbuf == [i \in 0 .. (nw * nh - 1) |->
                    IF Copied(i) THEN t.grbuf[Old(i)] ELSE 0]
    IN [t EXCEPT !.chbuf = chbuf,
                 !.grbuf = grbuf,
                 !.must_refresh_line_buf = [i \in 0 .. (nh - 1) |-> TRUE],
                 !.must_refresh = TRUE,
                 !.con_width = nw,
                 !.con_height = nh,
                 !.cursor_x = IF t.cursor_x >= nw THEN nw - 1 ELSE t.cursor_x,
                 !.cursor_y = IF t.cursor_y >= nh THEN nh - 1 ELSE t.cursor_y,
                 !.margin_top = 0,
                 !.margin_bottom = nh - 1]

\* mutant: the renditions of the old screen are not copied over
resize_buffers_chars_only(t, new_width, new_height) ==
    LET nw == IF new_width < NR_MIN_VT102_SCREEN_COLUMNS
              THEN NR_MIN_VT102_SCREEN_COLUMNS ELSE new_width
        nh == IF new_height < NR_MIN_VT102_SCREEN_ROWS
              THEN NR_MIN_VT102_SCREEN_ROWS ELSE new_height
        w == IF t.con_width > nw THEN nw ELSE t.con_width
        h == IF t.con_height > nh THEN nh ELSE t.con_height
        Copied(i) == (i \div nw) < h /\ (i % nw) < w
        Old(i) == (i \div nw) * t.con_width + (i % nw)
        chbuf == [i \in 0 .. (nw * nh - 1) |->
                    IF Copied(i) THEN t.chbuf[Old(i)] ELSE SPACE]
        grbuf == [i \in 0 .. (nw * nh - 1) |-> 0]
    IN [t EXCEPT !.chbuf = chbuf,
                 !.grbuf = grbuf,
                 !.must_refresh_line_buf = [i \in 0 .. (nh - 1) |-> TRUE],
                 !.must_refresh = TRUE,
                 !.con_width = nw,
                 !.con_height = nh,
                 !.cursor_x = IF t.cursor_x >= nw THEN nw - 1 ELSE t.cursor_x,
                 !.cursor_y = IF t.cursor_y >= nh THEN nh - 1 ELSE t.cursor_y,
                 !.margin_top = 0,
                 !.margin_bottom = nh - 1]

vt102_generic_backend_resize_buffers(t, new_width, new_height) ==
    LET nw == IF new_width < NR_MIN_VT102_SCREEN_COLUMNS
              THEN NR_MIN_VT102_SCREEN_COLUMNS ELSE new_width
        nh == IF new_height < NR_MIN_VT102_SCREEN_ROWS
              THEN NR_MIN_VT102_SCREEN_ROWS ELSE new_height
        w == IF t.con_width > nw THEN nw ELSE t.con_width
        h == IF t.con_height > nh THEN nh ELSE t.con_height
        Copied(i) == (i \div nw) < h /\ (i % nw) < w
        Old(i) == (i \div nw) * t.con_width + (i % nw)
        chbuf == [i \in 0 .. (nw * nh - 1) |->
                    IF Copied(i) THEN t.chbuf[Old(i)] ELSE SPACE]
        grbuf == [i \in 0 .. (nw * nh - 1) |->
                    IF Copied(i) THEN t.grbuf[Old(i)] ELSE 0]
    IN [t EXCEPT !.chbuf = chbuf,
                 !.grbuf = grbuf,
                 !.must_refresh_line_buf = [i \in 0 .. (nh - 1) |-> TRUE],
                 !.must_refresh = TRUE,
                 !.con_width = nw,
                 !.con_height = nh,
                 !.cursor_x = IF t.cursor_x >= nw THEN nw - 1 ELSE t.cursor_x,
                 !.cursor_y = IF t.cursor_y >= nh THEN nh - 1 ELSE t.cursor_y,
                 !.margin_top = 0,
                 !.margin_bottom = nh - 1]

\* ------------------------------------------------------------------------
\* render pass of the host event loop
\* ------------------------------------------------------------------------
\* update_term_pixmap: every row flagged for refresh is drawn in strides
\* (each stride sets must_refresh) and its flag is cleared
\* mutant: the pass stops after the first flagged row
update_term_pixmap_first_row(t) ==
    LET dirty == {i \in 0 .. (t.con_height - 1) : t.must_refresh_line_buf[i]}
        first == IF dirty = {} THEN -1
                 ELSE CHOOSE i \in dirty : \A j \in dirty : i <= j
    IN [t EXCEPT !.must_refresh = @ \/ dirty # {},
                 !.must_refresh_line_buf =
                     [i \in DOMAIN @ |-> IF i = first THEN FALSE ELSE @[i]]]

\* the strides update_term_pixmap draws for row y: each is a run of cells
\* of one rendition byte, drawn at its first column with the low three
\* bits of the foreground and of the background and the characters of the
\* run
RECURSIVE strides(_, _, _)
strides(t, y, j) ==
    IF j >= t.con_width THEN << >>
    ELSE LET grdata == t.grbuf[y * t.con_width + j]
             differ == {k \in (j + 1) .. (t.con_width - 1) :
                           t.grbuf[y * t.con_width + k] # grdata}
             k == IF differ = {} THEN t.con_width
                  ELSE CHOOSE c \in differ : \A e \in differ : c <= e
         IN <<[x |-> j, fg |-> grdata % 8, bg |-> (grdata \div 16) % 8,
               text |-> [n \in 1 .. (k - j) |-> t.chbuf[y * t.con_width + j + n - 1]]]>>
            \o strides(t, y, k)

update_term_pixmap(t) ==
    [t EXCEPT !.must_refresh =
                  @ \/ (\E i \in 0 .. (t.con_height - 1) : t.must_refresh_line_buf[i]),
              !.must_refresh_line_buf = [i \in DOMAIN @ |-> FALSE]]

\* the values the renderer stores into the flags of screen t: false into
\* the flag of each row it repaints (update_term_pixmap), true into
\* must_refresh for each stride it draws (update_term_pixmap_stride)
renderer_writes(t) ==
    LET dirty == \E i \in 0 .. (t.con_height - 1) : t.must_refresh_line_buf[i]
    IN [must_refresh |-> IF dirty THEN {TRUE} ELSE {},
        must_refresh_line_buf |-> IF dirty THEN {FALSE} ELSE {}]

\* mutant: the pass repaints but leaves must_refresh as the strides set it
render_pass_keeps_flag(t) == update_term_pixmap(t)

\* the branch taken when select() times out
render_pass(t) == [update_term_pixmap(t) EXCEPT !.must_refresh = FALSE]

\* ------------------------------------------------------------------------
\* construction
\* ------------------------------------------------------------------------
init_vt102_generic_backend(width, height) ==
    LET w == IF width < NR_MIN_VT102_SCREEN_COLUMNS
             THEN NR_MIN_VT102_SCREEN_COLUMNS ELSE width
        h == IF height < NR_MIN_VT102_SCREEN_ROWS
             THEN NR_MIN_VT102_SCREEN_ROWS ELSE height
    IN [cur_fg_gc_idx |-> 7,
        cur_bg_gc_idx |-> 0,
        con_width |-> w,
        con_height |-> h,
        chbuf |-> [i \in 0 .. (w * h - 1) |-> CHAR_E],
        grbuf |-> [i \in 0 .. (w * h - 1) |-> 0],
        cursor_x |-> 0,
        cursor_y |-> 0,
        margin_top |-> 0,
        margin_bottom |-> h - 1,
        must_refresh |-> TRUE,
        must_refresh_line_buf |-> [i \in 0 .. (h - 1) |-> TRUE],
        crashed |-> FALSE,
        oob |-> FALSE]

\* ------------------------------------------------------------------------
\* calls between the operations
\* ------------------------------------------------------------------------
\* the entry of the backend table through which operation name is started;
\* the resize and the render pass are called by the host without the table
entry_called(name) ==
    CASE name = "csi_cup" -> {"move_cursor_absolute"}
      [] name = "csi_decstbm" -> {"set_top_and_bottom_margins"}
      [] name = "csi_da" -> {"query_terminal_id"}
      [] name \in {"vt102_generic_backend_resize_buffers", "render_pass"}
            -> {}
      [] OTHER -> {name}

\* display_char on screen t wraps off the last row and calls handle_linefeed
display_char_scrolls(t) ==
    t.cursor_x = t.con_width - 1 /\ t.cursor_y = t.con_height - 1

\* one of the display_char calls of handle_horiz_tab on screen t does so
horiz_tab_scrolls(t) ==
    t.cursor_y = t.con_height - 1 /\ NextTabStop(t.cursor_x) >= t.con_width

\* the operations that operation name, run on screen t, calls with
\* vt102_get_backend_ops(state)->...()
calls_via_table(name, t) ==
    CASE name = "display_char" ->
            IF display_char_scrolls(t) THEN {"handle_linefeed"} ELSE {}
      [] name = "handle_horiz_tab" ->
            {"display_char"} \cup
            (IF horiz_tab_scrolls(t) THEN {"handle_linefeed"} ELSE {})
      [] OTHER -> {}

\* the operations that operation name, run on screen t, calls as the static
\* functions of vt102-backend-generic.c
calls_direct(name, t) ==
    CASE name = "display_char" ->
            IF display_char_scrolls(t) THEN {"move_cursor_absolute"} ELSE {}
      [] name = "handle_horiz_tab" ->
            IF horiz_tab_scrolls(t) THEN {"move_cursor_absolute"} ELSE {}
      [] name \in {"handle_linefeed", "handle_carriage_return",
                   "move_cursor_column_absolute"}
            -> {"move_cursor_absolute"}
      [] name \in {"handle_backspace", "cursor_reverse_index"}
            -> {"move_cursor_relative"}
      [] name = "erase_display_from_beginning_to_cursor"
            -> {"erase_line_from_beginning_to_cursor"}
      [] name = "erase_display_from_cursor_to_end"
            -> {"erase_line_from_cursor_to_end"}
      [] OTHER -> {}

\* ------------------------------------------------------------------------
\* allocation failures
\* ------------------------------------------------------------------------
\* the term_data as calloc returns it
calloc_term_data ==
    [cur_fg_gc_idx |-> 0,
     cur_bg_gc_idx |-> 0,
     con_width |-> 0,
     con_height |-> 0,
     chbuf |-> << >>,
     grbuf |-> << >>,
     cursor_x |-> 0,
     cursor_y |-> 0,
     margin_top |-> 0,
     margin_bottom |-> 0,
     must_refresh |-> FALSE,
     must_refresh_line_buf |-> << >>,
     crashed |-> FALSE,
     oob |-> FALSE]

\* init with allocation number fail returning 0: the failed calloc returns
\* 0 to the caller (no term_data exists; calloc_term_data stands for it),
\* a failed malloc prints "no core" and calls exit(1)
init_no_core(width, height, fail) ==
    LET w == IF width < NR_MIN_VT102_SCREEN_COLUMNS
             THEN NR_MIN_VT102_SCREEN_COLUMNS ELSE width
        h == IF height < NR_MIN_VT102_SCREEN_ROWS
             THEN NR_MIN_VT102_SCREEN_ROWS ELSE height
    IN [t |-> IF fail = 1 THEN calloc_term_data
              ELSE [calloc_term_data EXCEPT !.con_width = w,
                                            !.con_height = h],
        exit |-> fail # 1]

\* resize with allocation number fail returning 0: every failure prints
\* "no core" and calls exit(1); the failed realloc has already been
\* assigned to must_refresh_line_buf
resize_no_core(t, new_width, new_height, fail) ==
    [t |-> IF fail = 3 THEN [t EXCEPT !.must_refresh_line_buf = << >>]
           ELSE t,
     exit |-> TRUE]

\* ------------------------------------------------------------------------
\* the state machine
\* ------------------------------------------------------------------------
Init ==
    \E width \in WidthArgs, height \in HeightArgs :
        /\ tdata = init_vt102_generic_backend(width, height)
        /\ prev = tdata
        /\ op = "init_vt102_generic_backend"
        /\ args = <<width, height>>
        /\ steps = 0
        /\ emitted = << >>
        /\ nocore = 0
        /\ exited = FALSE
        /\ overrides = {"query_terminal_id"}
        /\ hooked = {}
        /\ vt = ground_state(<< >>)
        /\ prev_vt = vt
        /\ ready = {}

\* one call of a backend operation: the parser (or the host) invokes it on
\* a live instance
CallOut(name, a, t, out) ==
    /\ steps < MaxSteps
    /\ ~tdata.crashed
    /\ nocore = 0
    /\ ~exited
    /\ tdata' = t
    /\ prev' = tdata
    /\ op' = name
    /\ args' = a
    /\ steps' = steps + 1
    /\ emitted' = out
    /\ hooked' = (entry_called(name) \cup calls_via_table(name, tdata))
                     \cap overrides
    /\ prev_vt' = vt
    /\ UNCHANGED <<nocore, exited, overrides, vt, ready>>

\* no backend operation of vt102-backend-generic.c writes to the transport
Call(name, a, t) == CallOut(name, a, t, << >>)

DisplayChar ==
    \E ch \in DisplayChars :
        Call("display_char", <<ch>>, display_char(tdata, ch))

MoveCursorRelative ==
    \E d \in RelArgs :
        Call("move_cursor_relative", d, move_cursor_relative(tdata, d[1], d[2]))

MoveCursorAbsolute ==
    \E a \in AbsArgs :
        Call("move_cursor_absolute", a, move_cursor_absolute(tdata, a[1], a[2]))

MoveCursorColumnAbsolute ==
    \E x \in AbsCols :
        Call("move_cursor_column_absolute", <<x>>,
             move_cursor_column_absolute(tdata, x))

EraseLineAtCursor ==
    Call("erase_line_at_cursor", << >>, erase_line_at_cursor(tdata))

EraseLineFromBeginningToCursor ==
    Call("erase_line_from_beginning_to_cursor", << >>,
         erase_line_from_beginning_to_cursor(tdata))

EraseLineFromCursorToEnd ==
    Call("erase_line_from_cursor_to_end", << >>,
         erase_line_from_cursor_to_end(tdata))

EraseDisplay == Call("erase_display", << >>, erase_display(tdata))

EraseDisplayFromBeginningToCursor ==
    Call("erase_display_from_beginning_to_cursor", << >>,
         erase_display_from_beginning_to_cursor(tdata))

EraseDisplayFromCursorToEnd ==
    Call("erase_display_from_cursor_to_end", << >>,
         erase_display_from_cursor_to_end(tdata))

Backspace == Call("handle_backspace", << >>, handle_backspace(tdata))

HorizTab == Call("handle_horiz_tab", << >>, handle_horiz_tab(tdata))

Linefeed == Call("handle_linefeed", << >>, handle_linefeed(tdata))

CarriageReturn ==
    Call("handle_carriage_return", << >>, handle_carriage_return(tdata))

SetTopAndBottomMargins ==
    \E m \in MarginArgs :
        Call("set_top_and_bottom_margins", m,
             set_top_and_bottom_margins(tdata, m[1], m[2]))

InsertLines ==
    \E n \in LineCounts :
        Call("insert_lines_at_cursor", <<n>>, insert_lines_at_cursor(tdata, n))

DeleteLines ==
    \E n \in LineCounts :
        Call("delete_lines_at_cursor", <<n>>, delete_lines_at_cursor(tdata, n))

DeleteCharacters ==
    \E n \in CharCounts :
        Call("delete_characters_at_cursor", <<n>>,
             delete_characters_at_cursor(tdata, n))

ReverseIndex == Call("cursor_reverse_index", << >>, cursor_reverse_index(tdata))

SelectGraphicRendition ==
    \E p \in SgrArgs :
        Call("select_graphic_rendition", p, select_graphic_rendition(tdata, p))

Resize ==
    \E nw \in WidthArgs, nh \in HeightArgs :
        Call("vt102_generic_backend_resize_buffers", <<nw, nh>>,
             vt102_generic_backend_resize_buffers(tdata, nw, nh))

CsiCup ==
    \E p \in CupParams : Call("csi_cup", p, csi_cup(tdata, p))

CsiDecstbm ==
    \E p \in DecstbmParams : Call("csi_decstbm", p, csi_decstbm(tdata, p))

CsiDa ==
    \E p \in DaParams : CallOut("csi_da", p, tdata, csi_da(tdata, p))

\* select() returns 0 only when the timeout was armed, that is when
\* must_refresh was set
RenderPass ==
    /\ tdata.must_refresh
    /\ Call("render_pass", << >>, render_pass(tdata))

Next ==
    \/ DisplayChar
    \/ MoveCursorRelative
    \/ MoveCursorAbsolute
    \/ MoveCursorColumnAbsolute
    \/ EraseLineAtCursor
    \/ EraseLineFromBeginningToCursor
    \/ EraseLineFromCursorToEnd
    \/ EraseDisplay
    \/ EraseDisplayFromBeginningToCursor
    \/ EraseDisplayFromCursorToEnd
    \/ Backspace
    \/ HorizTab
    \/ Linefeed
    \/ CarriageReturn
    \/ SetTopAndBottomMargins
    \/ InsertLines
    \/ DeleteLines
    \/ DeleteCharacters
    \/ ReverseIndex
    \/ SelectGraphicRendition
    \/ Resize
    \/ CsiCup
    \/ CsiDecstbm
    \/ CsiDa
    \/ RenderPass

Spec == Init /\ [][Next]_vars

\* the same machine in an environment where an allocation can fail
InitNoCore ==
    \E width \in WidthArgs, height \in HeightArgs, fail \in InitAllocations :
        /\ tdata = init_no_core(width, height, fail).t
        /\ prev = tdata
        /\ op = "init_vt102_generic_backend"
        /\ args = <<width, height>>
        /\ steps = 0
        /\ emitted = << >>
        /\ nocore = fail
        /\ exited = init_no_core(width, height, fail).exit
        /\ overrides = {}
        /\ hooked = {}
        /\ vt = ground_state(<< >>)
        /\ prev_vt = vt
        /\ ready = {}

ResizeNoCore ==
    \E nw \in WidthArgs, nh \in HeightArgs, fail \in ResizeAllocations :
        /\ steps < MaxSteps
        /\ ~tdata.crashed
        /\ nocore = 0
        /\ ~exited
        /\ tdata' = resize_no_core(tdata, nw, nh, fail).t
        /\ prev' = tdata
        /\ op' = "vt102_generic_backend_resize_buffers"
        /\ args' = <<nw, nh>>
        /\ steps' = steps + 1
        /\ emitted' = << >>
        /\ nocore' = fail
        /\ exited' = resize_no_core(tdata, nw, nh, fail).exit
        /\ hooked' = {}
        /\ prev_vt' = vt
        /\ UNCHANGED <<overrides, vt, ready>>

\* the same machine with a host that replaces entries of the backend table
\* by functions of its own, which note the call and go on to the function
\* they replaced
OverrideEntry ==
    \E e \in OverrideArgs :
        /\ steps < MaxSteps
        /\ ~tdata.crashed
        /\ nocore = 0
        /\ ~exited
        /\ e \notin overrides
        /\ overrides' = overrides \cup {e}
        /\ hooked' = {}
        /\ prev' = tdata
        /\ op' = "override"
        /\ args' = <<e>>
        /\ steps' = steps + 1
        /\ emitted' = << >>
        /\ prev_vt' = vt
        /\ UNCHANGED <<tdata, nocore, exited, vt, ready>>

NextHooks == Next \/ OverrideEntry

SpecHooks == Init /\ [][NextHooks]_vars

\* the same machine fed byte by byte through the command parser, as the
\* host loop does with what it reads from the transport
InitParser ==
    /\ Init
    /\ args = <<NR_MIN_VT102_SCREEN_COLUMNS, MaxHeight>>

FeedByte ==
    \E b \in InputBytes :
        LET r == vt102_command_input_parser(vt, tdata, b)
        IN /\ steps < MaxBytes
           /\ ~tdata.crashed
           /\ nocore = 0
           /\ ~exited
           /\ vt' = r.vt
           /\ prev_vt' = vt
           /\ tdata' = r.t
           /\ prev' = tdata
           /\ op' = "vt102_command_input_parser"
           /\ args' = <<b>>
           /\ steps' = steps + 1
           /\ emitted' = r.out
           /\ hooked' = IF r.called = "none" THEN {}
                        ELSE ({r.called} \cup calls_via_table(r.called, tdata))
                                 \cap overrides
           /\ UNCHANGED <<nocore, exited, overrides, ready>>

NextParser == FeedByte

SpecParser == InitParser /\ [][NextParser]_vars

\* ------------------------------------------------------------------------
\* the host event loop (main of term3.c and of qterm.c): one turn of the
\* loop handles the pending X events, arms the timeout of select() when
\* must_refresh is set, waits, repaints when the wait timed out, and reads
\* and feeds what the transport delivered. The loop runs on one thread,
\* so each branch is one step.
\* ------------------------------------------------------------------------
InitLoop ==
    /\ Init
    /\ args = <<NR_MIN_VT102_SCREEN_COLUMNS, NR_MIN_VT102_SCREEN_ROWS>>

\* the timeout handed to select(): armed when must_refresh is set
timeout_armed(t) == t.must_refresh

LoopStep(name, a, t, r) ==
    /\ ~tdata.crashed
    /\ nocore = 0
    /\ ~exited
    /\ tdata' = t
    /\ prev' = tdata
    /\ op' = name
    /\ args' = a
    /\ ready' = r
    /\ emitted' = << >>
    /\ hooked' = {}
    /\ prev_vt' = vt
    /\ UNCHANGED <<steps, nocore, exited, overrides, vt>>

\* the environment: bytes arrive on the transport, or an event arrives
\* from the X server, while the loop waits in select()
Arrive ==
    \E fd \in Descriptors \ ready :
        LoopStep("arrive", <<fd>>, tdata, ready \cup {fd})

\* select() returns 0: the timeout was armed and no descriptor is readable
LoopRender ==
    /\ timeout_armed(tdata)
    /\ ready = {}
    /\ LoopStep("render_pass", << >>, render_pass(tdata), ready)

\* the transport is readable: what was read is fed to the parser, which
\* calls the backend; more bytes may be waiting after the read
ReadTransport ==
    /\ "comm_fd" \in ready
    /\ \E in \in LoopInputs, more \in BOOLEAN :
          LoopStep(in, IF in = "move_cursor_relative" THEN <<1, 0>> ELSE << >>,
                   CASE in = "move_cursor_relative" ->
                            move_cursor_relative(tdata, 1, 0)
                     [] in = "handle_linefeed" -> handle_linefeed(tdata)
                     [] in = "handle_carriage_return" ->
                            handle_carriage_return(tdata),
                   IF more THEN ready ELSE ready \ {"comm_fd"})

\* the X display is readable: a ConfigureNotify event resizes the buffers
HandleXEvent ==
    /\ "x_fd" \in ready
    /\ \E h \in LoopHeights :
          LoopStep("vt102_generic_backend_resize_buffers",
                   <<NR_MIN_VT102_SCREEN_COLUMNS, h>>,
                   vt102_generic_backend_resize_buffers(
                       tdata, NR_MIN_VT102_SCREEN_COLUMNS, h),
                   ready \ {"x_fd"})

NextLoop ==
    \/ Arrive
    \/ LoopRender
    \/ ReadTransport
    \/ HandleXEvent

\* select() returns once its timeout has elapsed or a descriptor is
\* readable, and the loop then runs the matching branch; nothing obliges
\* the environment to send anything
FairLoop ==
    /\ WF_vars(LoopRender)
    /\ WF_vars(ReadTransport)
    /\ WF_vars(HandleXEvent)

SpecLoop == InitLoop /\ [][NextLoop]_vars /\ FairLoop

InitAlloc == Init \/ InitNoCore

NextAlloc == Next \/ ResizeNoCore

SpecAlloc == InitAlloc /\ [][NextAlloc]_vars

\* ------------------------------------------------------------------------
\* reading the screen
\* ------------------------------------------------------------------------
\* character and rendition of the cell in column x of row y
Ch(t, x, y) == t.chbuf[y * t.con_width + x]
Gr(t, x, y) == t.grbuf[y * t.con_width + x]
\* decoding of a packed rendition byte: fg in bits 0..3, bg in bits 4..7
Fg(g) == g % 16
Bg(g) == (g \div 16) % 16

Cols(t) == 0 .. (t.con_width - 1)
Rows(t) == 0 .. (t.con_height - 1)

\* row y of screen t differs from row y of screen p (a row or a column that
\* p does not have counts as different)
RowChanged(p, t, y) ==
    \/ y >= p.con_height
    \/ \E x \in Cols(t) :
          \/ x >= p.con_width
          \/ Ch(p, x, y) # Ch(t, x, y)
          \/ Gr(p, x, y) # Gr(t, x, y)

CellsChanged(p, t) == p.chbuf # t.chbuf \/ p.grbuf # t.grbuf
CursorChanged(p, t) == p.cursor_x # t.cursor_x \/ p.cursor_y # t.cursor_y

IsInit == op = "init_vt102_generic_backend"
IsResize == op = "vt102_generic_backend_resize_buffers"

\* the last operation was display_char with the cursor in the last column
\* of the last screen row
FellOffBottom ==
    /\ op = "display_char"
    /\ prev.cursor_x = prev.con_width - 1
    /\ prev.cursor_y = prev.con_height - 1

\* ------------------------------------------------------------------------
\* claims
\* ------------------------------------------------------------------------

\* C1: in every reachable state the cursor lies inside the screen,
\* 0 <= cursor_x < con_width and 0 <= cursor_y < con_height, and the two
\* crash guards at the top of display_char have never been taken.
C1_CursorInBounds ==
    /\ ~tdata.crashed
    /\ 0 <= tdata.cursor_x /\ tdata.cursor_x < tdata.con_width
    /\ 0 <= tdata.cursor_y /\ tdata.cursor_y < tdata.con_height

\* display_char has run with the cursor on the last cell of the screen, below
\* the scrolling region, and the linefeed it performs has moved the cursor
C1_Witness ==
    /\ FellOffBottom
    /\ ~tdata.crashed
    /\ prev.con_width = NR_MIN_VT102_SCREEN_COLUMNS
    /\ prev.margin_bottom < prev.con_height - 1

\* C2: in every reachable state 0 <= margin_top < margin_bottom <=
\* con_height - 1; set_top_and_bottom_margins stores margins with
\* 0 <= top <= height - 2 and top < bottom <= height - 1 whatever its
\* arguments, and init and resize set the margins to (0, height - 1).
C2_MarginsOrdered ==
    /\ 0 <= tdata.margin_top
    /\ tdata.margin_top <= tdata.con_height - 2
    /\ tdata.margin_top < tdata.margin_bottom
    /\ tdata.margin_bottom <= tdata.con_height - 1
    /\ (IsInit \/ IsResize) =>
          /\ tdata.margin_top = 0
          /\ tdata.margin_bottom = tdata.con_height - 1

\* set_top_and_bottom_margins has been called with a reversed pair whose
\* top is beyond the last row
C2_Witness ==
    /\ op = "set_top_and_bottom_margins"
    /\ args[1] > args[2]
    /\ args[1] > tdata.con_height - 1
    /\ args[2] < 0
    /\ tdata.con_height > NR_MIN_VT102_SCREEN_ROWS

\* C3: when an operation has changed the character or the rendition of a
\* cell of row y, must_refresh_line_buf[y] is true when it returns.
C3_ChangedRowIsDirty ==
    ~IsInit =>
        \A y \in Rows(tdata) :
            RowChanged(prev, tdata, y) => tdata.must_refresh_line_buf[y]

\* a scroll has changed a row whose flag the renderer had cleared
C3_Witness ==
    /\ op = "handle_linefeed"
    /\ prev.cursor_y = prev.margin_bottom
    /\ \E y \in Rows(tdata) :
          /\ y < prev.con_height
          /\ ~prev.must_refresh_line_buf[y]
          /\ RowChanged(prev, tdata, y)
          /\ y = prev.margin_bottom

\* C4: an operation other than the render pass that changes a cell or the
\* cursor position leaves must_refresh true, and must_refresh goes from
\* true to false only in the render pass.
C4_MustRefreshAfterChange ==
    /\ (op # "render_pass" /\ (CellsChanged(prev, tdata) \/ CursorChanged(prev, tdata)))
          => tdata.must_refresh
    /\ (prev.must_refresh /\ ~tdata.must_refresh) => op = "render_pass"

\* after the renderer cleared must_refresh, a cursor move changed only the
\* cursor position
C4_Witness ==
    /\ op = "move_cursor_relative"
    /\ ~prev.must_refresh
    /\ CursorChanged(prev, tdata)
    /\ ~CellsChanged(prev, tdata)
    /\ tdata.must_refresh

\* C5: in every reachable state the packed rendition of every cell decodes
\* to a foreground in 0..7 and a background in 0..7.
C5_RenditionInRange ==
    \A i \in DOMAIN tdata.grbuf :
        /\ Fg(tdata.grbuf[i]) \in 0 .. 7
        /\ Bg(tdata.grbuf[i]) \in 0 .. 7

\* a cell written with a non-default rendition has been scrolled by a
\* reverse index, which also left its fill byte in the vacated row
C5_Witness ==
    /\ op = "cursor_reverse_index"
    /\ prev.cursor_y = prev.margin_top
    /\ \E i \in DOMAIN tdata.grbuf : Bg(tdata.grbuf[i]) = 4
    /\ \E i \in DOMAIN tdata.grbuf : tdata.grbuf[i] = SPACE

\* C6: con_width >= 10 and con_height >= 2 in every reachable state; init
\* and resize raise a smaller (zero or negative) width or height to the
\* minimum.
C6_MinimumSize ==
    /\ tdata.con_width >= NR_MIN_VT102_SCREEN_COLUMNS
    /\ tdata.con_height >= NR_MIN_VT102_SCREEN_ROWS
    /\ (IsInit \/ IsResize) =>
          /\ tdata.con_width = IF args[1] < 10 THEN 10 ELSE args[1]
          /\ tdata.con_height = IF args[2] < 2 THEN 2 ELSE args[2]

\* a larger screen has been resized to a zero width and a negative height
C6_Witness ==
    /\ IsResize
    /\ args[1] <= 0
    /\ args[2] < 0
    /\ prev.con_width > NR_MIN_VT102_SCREEN_COLUMNS
    /\ prev.con_height > NR_MIN_VT102_SCREEN_ROWS
    /\ tdata.con_width = 10
    /\ tdata.con_height = 2

\* C7: immediately after init every cell holds the space character with
\* rendition 0, every must_refresh_line_buf entry is true, the cursor is at
\* (0, 0), the margins are (0, height - 1) and the current rendition is
\* fg = 7, bg = 0.
C7_InitialScreen ==
    IsInit =>
        /\ \A i \in DOMAIN tdata.chbuf : tdata.chbuf[i] = SPACE
        /\ \A i \in DOMAIN tdata.grbuf : tdata.grbuf[i] = 0
        /\ \A y \in Rows(tdata) : tdata.must_refresh_line_buf[y]
        /\ tdata.cursor_x = 0 /\ tdata.cursor_y = 0
        /\ tdata.margin_top = 0 /\ tdata.margin_bottom = tdata.con_height - 1
        /\ tdata.cur_fg_gc_idx = 7 /\ tdata.cur_bg_gc_idx = 0

\* C8: display_char(b) that does not fall off the bottom of the screen
\* writes (b, cur_fg, cur_bg) into the cell at the cursor and changes no
\* other cell; the cursor then moves one column right, or, when the written
\* column was the last one, at once to column 0 of the next row.
C8_DisplayCharWritesAndAdvances ==
    (op = "display_char" /\ ~FellOffBottom) =>
        LET cx == prev.cursor_x
            cy == prev.cursor_y
        IN /\ \A y \in Rows(tdata), x \in Cols(tdata) :
                 IF x = cx /\ y = cy
                 THEN /\ Ch(tdata, x, y) = args[1]
                      /\ Fg(Gr(tdata, x, y)) = prev.cur_fg_gc_idx
                      /\ Bg(Gr(tdata, x, y)) = prev.cur_bg_gc_idx
                 ELSE /\ Ch(tdata, x, y) = Ch(prev, x, y)
                      /\ Gr(tdata, x, y) = Gr(prev, x, y)
           /\ tdata.con_width = prev.con_width
           /\ tdata.con_height = prev.con_height
           /\ IF cx = prev.con_width - 1
              THEN tdata.cursor_x = 0 /\ tdata.cursor_y = cy + 1
              ELSE tdata.cursor_x = cx + 1 /\ tdata.cursor_y = cy

\* a character written in the last column of the bottom row of the
\* scrolling region, with rows below the region, and a non-default rendition
C8_Witness ==
    /\ op = "display_char"
    /\ prev.cursor_x = prev.con_width - 1
    /\ prev.cursor_y = prev.margin_bottom
    /\ prev.cursor_y < prev.con_height - 1
    /\ tdata.cursor_x = 0
    /\ tdata.cursor_y = prev.cursor_y + 1

\* the screen p after the character b has been stored at its cursor
Written(p, b, x, y) ==
    IF x = p.cursor_x /\ y = p.cursor_y
    THEN <<b, PackRendition(p.cur_fg_gc_idx, p.cur_bg_gc_idx)>>
    ELSE <<Ch(p, x, y), Gr(p, x, y)>>

Cell(t, x, y) == <<Ch(t, x, y), Gr(t, x, y)>>

\* the rows of [margin_top, margin_bottom] have moved up by one, and the
\* last row of the region is blank
RegionScrolledUp ==
    \A y \in Rows(tdata), x \in Cols(tdata) :
        Cell(tdata, x, y) =
            IF y < prev.margin_top \/ y > prev.margin_bottom
            THEN Written(prev, args[1], x, y)
            ELSE IF y < prev.margin_bottom
            THEN Written(prev, args[1], x, y + 1)
            ELSE <<SPACE, 0>>

\* no row has moved: only the cell at the cursor has been written
NothingScrolled ==
    \A y \in Rows(tdata), x \in Cols(tdata) :
        Cell(tdata, x, y) = Written(prev, args[1], x, y)

Blank == <<SPACE, 0>>

\* the cursor row of screen p lies in its scrolling region
InRegion(p) == p.margin_top <= p.cursor_y /\ p.cursor_y <= p.margin_bottom

SameSize ==
    /\ tdata.con_width = prev.con_width
    /\ tdata.con_height = prev.con_height

SameMargins ==
    /\ tdata.margin_top = prev.margin_top
    /\ tdata.margin_bottom = prev.margin_bottom

Min(a, b) == IF a < b THEN a ELSE b

\* a row clipped to the scrolling region of p
ClipRow(p, y) ==
    IF y < p.margin_top THEN p.margin_top
    ELSE IF y > p.margin_bottom THEN p.margin_bottom
    ELSE y

\* C11: linefeed with cursor_y = margin_bottom moves each row r of
\* margin_top+1 .. margin_bottom (characters and renditions) to row r-1,
\* fills row margin_bottom with (' ', 0, 0), marks every row of the region
\* dirty, leaves the cells outside the region unchanged and leaves the
\* cursor at (cursor_x, margin_bottom).
C11_LinefeedScrolls ==
    (op = "handle_linefeed" /\ prev.cursor_y = prev.margin_bottom) =>
        /\ SameSize
        /\ SameMargins
        /\ \A y \in Rows(tdata), x \in Cols(tdata) :
              Cell(tdata, x, y) =
                  IF y < prev.margin_top \/ y > prev.margin_bottom
                  THEN Cell(prev, x, y)
                  ELSE IF y < prev.margin_bottom
                  THEN Cell(prev, x, y + 1)
                  ELSE Blank
        /\ \A y \in Rows(tdata) :
              IF prev.margin_top <= y /\ y <= prev.margin_bottom
              THEN tdata.must_refresh_line_buf[y]
              ELSE tdata.must_refresh_line_buf[y] = prev.must_refresh_line_buf[y]
        /\ tdata.cursor_x = prev.cursor_x
        /\ tdata.cursor_y = prev.margin_bottom

\* a linefeed on the bottom margin, away from column 0, has moved a row
\* onto a row with other contents
C11_Witness ==
    /\ op = "handle_linefeed"
    /\ prev.cursor_y = prev.margin_bottom
    /\ prev.cursor_x > 0
    /\ \E x \in Cols(prev) :
          Cell(prev, x, prev.margin_top) # Cell(prev, x, prev.margin_top + 1)

\* C12: carriage_return sets cursor_x to 0 and changes nothing else:
\* cursor_y, the margins and all cells are the same before and after, also
\* when the cursor is outside the scrolling region.
C12_CarriageReturnFrame ==
    op = "handle_carriage_return" =>
        /\ tdata.cursor_x = 0
        /\ tdata.cursor_y = prev.cursor_y
        /\ SameMargins
        /\ SameSize
        /\ ~CellsChanged(prev, tdata)

\* C13: carriage return is idempotent: once a carriage return has been
\* applied, a second one leaves the whole screen state as it is.
C13_CarriageReturnIdempotent ==
    op = "handle_carriage_return" => handle_carriage_return(tdata) = tdata

\* a carriage return applied away from column 0 with the cursor below the
\* scrolling region
C13_Witness ==
    /\ op = "handle_carriage_return"
    /\ prev.cursor_x > 0
    /\ prev.cursor_y > prev.margin_bottom
    /\ tdata # prev

\* the screen after a backspace that follows the last operation
AfterBackspace == handle_backspace(tdata)

C15_HorizTabStaysInRow ==
    op = "handle_horiz_tab" =>
        /\ SameSize
        /\ \A y \in Rows(tdata), x \in Cols(tdata) :
              (y # prev.cursor_y \/ x < prev.cursor_x
                  \/ x >= NextTabStop(prev.cursor_x))
                  => Cell(tdata, x, y) = Cell(prev, x, y)
        /\ \A x \in Cols(tdata) :
              (prev.cursor_x <= x /\ x < NextTabStop(prev.cursor_x))
                  => Ch(tdata, x, prev.cursor_y) = SPACE

\* the range of columns of the cursor row that an erase-in-line covers
EraseLineFrom ==
    IF op = "erase_line_from_cursor_to_end" THEN prev.cursor_x ELSE 0
EraseLineTo ==
    IF op = "erase_line_from_beginning_to_cursor"
    THEN prev.cursor_x ELSE prev.con_width - 1

\* C16: each erase-in-line operation sets exactly its range of the cursor
\* row to (' ', 0, 0) (the whole row, columns 0 .. cursor_x, or columns
\* cursor_x .. width-1), changes no other cell and leaves the cursor where
\* it was.
C16_EraseInLine ==
    op \in {"erase_line_at_cursor", "erase_line_from_beginning_to_cursor",
            "erase_line_from_cursor_to_end"} =>
        /\ SameSize
        /\ ~CursorChanged(prev, tdata)
        /\ \A y \in Rows(tdata), x \in Cols(tdata) :
              Cell(tdata, x, y) =
                  IF y = prev.cursor_y /\ EraseLineFrom <= x /\ x <= EraseLineTo
                  THEN Blank
                  ELSE Cell(prev, x, y)

\* an erase from the beginning of the line to a cursor in the middle of a
\* row that is not the first
C16_Witness ==
    /\ op = "erase_line_from_beginning_to_cursor"
    /\ prev.cursor_x > 0
    /\ prev.cursor_x < prev.con_width - 1
    /\ prev.cursor_y > 0
    /\ Cell(prev, prev.cursor_x, prev.cursor_y) # Blank
    /\ Cell(tdata, prev.cursor_x + 1, prev.cursor_y) # Blank

\* position of a cell in reading order
ReadingPos(t, x, y) == y * t.con_width + x

\* C17: each erase-in-display operation sets exactly its range to
\* (' ', 0, 0) (every cell, the cells up to and including the cursor cell
\* in reading order, or the cells from the cursor cell to the end of the
\* screen), changes no other cell and does not move the cursor.
C17_EraseInDisplay ==
    op \in {"erase_display", "erase_display_from_beginning_to_cursor",
            "erase_display_from_cursor_to_end"} =>
        LET c == ReadingPos(prev, prev.cursor_x, prev.cursor_y)
            Erased(x, y) ==
                CASE op = "erase_display" -> TRUE
                  [] op = "erase_display_from_beginning_to_cursor" ->
                        ReadingPos(prev, x, y) <= c
                  [] op = "erase_display_from_cursor_to_end" ->
                        ReadingPos(prev, x, y) >= c
        IN /\ SameSize
           /\ ~CursorChanged(prev, tdata)
           /\ \A y \in Rows(tdata), x \in Cols(tdata) :
                 Cell(tdata, x, y) =
                     IF Erased(x, y) THEN Blank ELSE Cell(prev, x, y)

\* an erase from the beginning of the display to a cursor in the middle of
\* a row that is neither the first nor the last
C17_Witness ==
    /\ op = "erase_display_from_beginning_to_cursor"
    /\ prev.cursor_x > 0
    /\ prev.cursor_x < prev.con_width - 1
    /\ prev.cursor_y > 0
    /\ prev.cursor_y < prev.con_height - 1
    /\ Cell(tdata, prev.cursor_x + 1, prev.cursor_y) # Blank
    /\ Cell(tdata, 0, 0) = Blank

\* C18: insert_lines(n), n >= 1, with the cursor inside the scrolling
\* region moves rows cursor_y .. margin_bottom-n down by n (characters and
\* renditions), clears min(n, margin_bottom-cursor_y+1) rows from cursor_y
\* on, and leaves the rows above cursor_y and below margin_bottom unchanged.
C18_InsertLines ==
    (op = "insert_lines_at_cursor" /\ args[1] >= 1 /\ InRegion(prev)) =>
        LET n == args[1]
            k == Min(n, prev.margin_bottom - prev.cursor_y + 1)
        IN /\ SameSize
           /\ \A y \in Rows(tdata), x \in Cols(tdata) :
                 Cell(tdata, x, y) =
                     IF y < prev.cursor_y \/ y > prev.margin_bottom
                     THEN Cell(prev, x, y)
                     ELSE IF y < prev.cursor_y + k
                     THEN Blank
                     ELSE Cell(prev, x, y - n)

\* lines inserted above a row that carried a rendition, which has moved
\* down with it
C18_Witness ==
    /\ op = "insert_lines_at_cursor"
    /\ InRegion(prev)
    /\ prev.cursor_y + args[1] <= prev.margin_bottom
    /\ \E x \in Cols(prev) :
          /\ Gr(prev, x, prev.cursor_y) # 0
          /\ Gr(tdata, x, prev.cursor_y + args[1]) = Gr(prev, x, prev.cursor_y)

C20_OutsideRegionNoOp ==
    (op \in {"insert_lines_at_cursor", "delete_lines_at_cursor"}
        /\ ~InRegion(prev)) => tdata = prev

\* delete_lines called with the cursor above the scrolling region
C20_Witness ==
    /\ op = "delete_lines_at_cursor"
    /\ prev.cursor_y < prev.margin_top
    /\ tdata = prev

\* ------------------------------------------------------------------------
\* claims about DCH, the cursor moves, RI, SGR, DA and resize
\* ------------------------------------------------------------------------
\* C21: delete_characters_at_cursor(n) with n >= 1 moves the cells of the
\* cursor row in columns cursor_x+n .. width-1 left by n as whole cells
\* (character together with its rendition), makes the n rightmost cells of
\* the row a space with rendition 0, takes n as at most width - cursor_x,
\* changes no other row and leaves the cursor where it was; with n <= 0
\* nothing changes.
C21_DeleteChars ==
    op = "delete_characters_at_cursor" =>
        IF args[1] <= 0
        THEN tdata = prev
        ELSE LET w == prev.con_width
                 n == Min(args[1], w - prev.cursor_x)
             IN
             /\ SameSize
             /\ ~CursorChanged(prev, tdata)
             /\ \A y \in Rows(tdata), x \in Cols(tdata) :
                   Cell(tdata, x, y) =
                       IF y # prev.cursor_y \/ x < prev.cursor_x
                       THEN Cell(prev, x, y)
                       ELSE IF x < w - n
                       THEN Cell(prev, x + n, y)
                       ELSE Blank

C23_CupHome ==
    op = "csi_cup" =>
        /\ tdata = csi_cup(prev, << >>)
        /\ tdata = csi_cup(prev, <<1, 1>>)
        /\ tdata.cursor_x = 0
        /\ tdata.cursor_y = 0

\* C28: on a DA request (CSI c or CSI 0 c) exactly the five bytes
\* ESC [ ? 6 c are written to the transport and no field of the screen
\* changes.
C28_DeviceAttributes ==
    op = "csi_da" =>
        /\ emitted = <<27, 91, 63, 54, 99>>
        /\ tdata = prev

\* a column clipped to the screen of p
ClipCol(p, x) ==
    IF x < 0 THEN 0
    ELSE IF x > p.con_width - 1 THEN p.con_width - 1
    ELSE x

IsCursorMove ==
    op \in {"move_cursor_relative", "move_cursor_absolute",
            "move_cursor_column_absolute"}

\* the column and the row the last cursor move asked for
RequestedCol ==
    IF op = "move_cursor_relative" THEN prev.cursor_x + args[1] ELSE args[1]
RequestedRow ==
    IF op = "move_cursor_relative" THEN prev.cursor_y + args[2]
    ELSE IF op = "move_cursor_absolute" THEN args[2]
    ELSE prev.cursor_y

C25_ReverseIndexKeepsColumn ==
    op = "cursor_reverse_index" =>
        /\ tdata.cursor_x = prev.cursor_x
        /\ IF prev.cursor_y = prev.margin_top
           THEN tdata.cursor_y = prev.margin_top
           ELSE /\ tdata.cursor_y = ClipRow(prev, prev.cursor_y - 1)
                /\ ~CellsChanged(prev, tdata)

\* C26: when cursor_reverse_index scrolls, each row r of
\* margin_top .. margin_bottom-1 moves to row r+1 with its renditions, the
\* vacated row margin_top becomes spaces with rendition 0, the rows of the
\* region are marked dirty, and the cells outside the region are unchanged.
C26_ReverseIndexScrolls ==
    (op = "cursor_reverse_index" /\ prev.cursor_y = prev.margin_top) =>
        /\ SameSize
        /\ \A y \in Rows(tdata), x \in Cols(tdata) :
              Cell(tdata, x, y) =
                  IF y < prev.margin_top \/ y > prev.margin_bottom
                  THEN Cell(prev, x, y)
                  ELSE IF y = prev.margin_top
                  THEN Blank
                  ELSE Cell(prev, x, y - 1)
        /\ \A y \in prev.margin_top .. prev.margin_bottom :
              tdata.must_refresh_line_buf[y]

\* the current rendition <<fg, bg>> after one SGR parameter n, as the
\* claim lists it
SgrStep(c, n) ==
    CASE n = 0 -> <<7, 0>>
      [] n = 7 -> <<c[2], c[1]>>
      [] n \in 30 .. 37 -> <<n - 30, c[2]>>
      [] n = 39 -> <<7, c[2]>>
      [] n \in 40 .. 47 -> <<c[1], n - 40>>
      [] n = 49 -> <<c[1], 0>>
      [] OTHER -> c

RECURSIVE SgrFold(_, _, _)
SgrFold(c, params, i) ==
    IF i > Len(params) THEN c
    ELSE SgrFold(SgrStep(c, params[i]), params, i + 1)

\* C27: select_graphic_rendition applies its parameters in order: 0 sets
\* (fg, bg) = (7, 0), 7 swaps fg and bg, 30..37 set fg = n - 30, 39 sets
\* fg = 7, 40..47 set bg = n - 40, 49 sets bg = 0, any other value leaves
\* both as they are; no cell, cursor or dirty flag changes.
C27_SelectGraphicRendition ==
    op = "select_graphic_rendition" =>
        LET c == SgrFold(<<prev.cur_fg_gc_idx, prev.cur_bg_gc_idx>>, args, 1)
        IN tdata = [prev EXCEPT !.cur_fg_gc_idx = c[1],
                                !.cur_bg_gc_idx = c[2]]

\* two parameters whose order matters, applied to a rendition that is not
\* the default one
C27_Witness ==
    /\ op = "select_graphic_rendition"
    /\ args = <<7, 31>>
    /\ prev.cur_bg_gc_idx = 4
    /\ tdata.cur_fg_gc_idx = 1
    /\ tdata.cur_bg_gc_idx = 7
    /\ ~prev.must_refresh

\* C29: resize to (w', h') keeps the top-left min(w, w') x min(h, h')
\* subgrid cell for cell, makes every other cell a space with rendition 0,
\* resets the margins to (0, h'-1), clips the cursor into the new screen,
\* marks every row dirty and sets must_refresh.
C29_ResizePreserves ==
    IsResize =>
        /\ DOMAIN tdata.chbuf = 0 .. (tdata.con_width * tdata.con_height - 1)
        /\ DOMAIN tdata.grbuf = DOMAIN tdata.chbuf
        /\ \A y \in Rows(tdata), x \in Cols(tdata) :
              Cell(tdata, x, y) =
                  IF x < prev.con_width /\ y < prev.con_height
                  THEN Cell(prev, x, y)
                  ELSE Blank
        /\ tdata.margin_top = 0
        /\ tdata.margin_bottom = tdata.con_height - 1
        /\ tdata.cursor_x = Min(prev.cursor_x, tdata.con_width - 1)
        /\ tdata.cursor_y = Min(prev.cursor_y, tdata.con_height - 1)
        /\ DOMAIN tdata.must_refresh_line_buf = Rows(tdata)
        /\ \A y \in Rows(tdata) : tdata.must_refresh_line_buf[y]
        /\ tdata.must_refresh

\* a resize that drops a column and adds a row, of a screen that holds a
\* cell with a rendition other than 0 in the kept part and whose cursor is in
\* the dropped column
C29_Witness ==
    /\ IsResize
    /\ tdata.con_width < prev.con_width
    /\ tdata.con_height > prev.con_height
    /\ prev.cursor_x = prev.con_width - 1
    /\ tdata.cursor_x = tdata.con_width - 1
    /\ \E x \in Cols(tdata) : Gr(tdata, x, 0) # 0

\* C30: when an allocation fails inside init or resize, the operation
\* reports the failure to its caller rather than ending the process, and
\* after a failed resize the screen is as it was before the call.
C30_AllocationFailureReported ==
    nocore # 0 =>
        /\ ~exited
        /\ IsResize => tdata = prev

\* ------------------------------------------------------------------------
\* claims about the backend table, the parser, the renderer and the host loop
\* ------------------------------------------------------------------------
\* C31: every backend operation that performs another screen operation
\* calls it through the current backend table: when the host has replaced
\* the entry of an operation, the replacement is what is called whenever
\* handle_horiz_tab, display_char, handle_linefeed, handle_carriage_return,
\* handle_backspace, move_cursor_column_absolute, cursor_reverse_index or
\* erase_display_from_* performs that operation.
C31_OverridesAreCalled ==
    \A e \in calls_via_table(op, prev) \cup calls_direct(op, prev) :
        e \in overrides => e \in hooked

\* characters written by the refills that are tried after an erase
RefillChars == {<< >>, <<65>>, <<66, 65>>, <<65, 65, 66>>}

\* screen t after display_char of each character of chars from the i-th on
RECURSIVE Refill(_, _, _)
Refill(t, chars, i) ==
    IF i > Len(chars) THEN t
    ELSE Refill(display_char(t, chars[i]), chars, i + 1)

\* a screen with the size, cursor, margins and current rendition of p and
\* with other cells everywhere: 'Z' with rendition 0x71
Scrambled(p) ==
    [p EXCEPT !.chbuf = [i \in DOMAIN p.chbuf |-> 90],
              !.grbuf = [i \in DOMAIN p.grbuf |-> 113]]

SameGrid(a, b) == a.chbuf = b.chbuf /\ a.grbuf = b.grbuf

\* C32: two screens of the same size, cursor, margins and current rendition
\* whose cells differ give the same cell grid after erase_display (ESC [2J)
\* followed by the same display_char calls: nothing of the prior content
\* survives.
C32_EraseAndRefill ==
    op = "erase_display" =>
        \A chars \in RefillChars :
            SameGrid(Refill(tdata, chars, 1),
                     Refill(erase_display(Scrambled(prev)), chars, 1))

\* the erased screen held a written character and a rendition other than 0,
\* and the refill wraps at the end of a row
C32_Witness ==
    /\ op = "erase_display"
    /\ \E i \in DOMAIN prev.chbuf : prev.chbuf[i] = 65 /\ prev.grbuf[i] # 0
    /\ tdata.cursor_x = tdata.con_width - 1
    /\ Refill(tdata, <<66, 65>>, 1).cursor_x = 1
    /\ ~SameGrid(prev, Scrambled(prev))

\* C33: the renderer only clears: during a render pass it never stores true
\* into must_refresh or into a row flag and never changes cells, cursor or
\* margins; it only sets row flags and must_refresh to false.
C33_RendererOnlyClears ==
    op = "render_pass" =>
        /\ TRUE \notin renderer_writes(prev).must_refresh
        /\ TRUE \notin renderer_writes(prev).must_refresh_line_buf
        /\ ~CellsChanged(prev, tdata)
        /\ ~CursorChanged(prev, tdata)
        /\ SameMargins
        /\ SameSize
        /\ \A y \in Rows(tdata) :
              tdata.must_refresh_line_buf[y] => prev.must_refresh_line_buf[y]
        /\ tdata.must_refresh => prev.must_refresh

ParserModes == {"Ground", "Esc", "Csi", "OscString"}

\* the last operation was a byte fed to the parser
IsFeed == op = "vt102_command_input_parser"

\* the parser holds nothing of a control sequence
CsiStateCleared(v) ==
    /\ v.params = << >>
    /\ v.cur = -1
    /\ v.private_marker = 0
    /\ v.intermediates = << >>

\* the last byte completed an escape or a control sequence
SequenceCompleted ==
    /\ IsFeed
    /\ \/ prev_vt.mode = "Csi" /\ args[1] \in 64 .. 126
       \/ prev_vt.mode = "Esc" /\ args[1] \notin {91, 93}

\* C34: after every completed escape or control sequence (a final byte
\* 0x40..0x7E in Csi, any byte but '[' and ']' in Esc) the parser is in
\* Ground with params, private_marker and intermediates cleared, and a
\* control sequence starts with nothing of an earlier one.
C34_ParserResets ==
    /\ SequenceCompleted => (vt.mode = "Ground" /\ CsiStateCleared(vt))
    /\ vt.mode = "Ground" => CsiStateCleared(vt)
    /\ (IsFeed /\ prev_vt.mode = "Esc" /\ args[1] = 91) =>
           (vt.mode = "Csi" /\ CsiStateCleared(vt))

\* ESC [ 1 A: the final byte of a sequence with a parameter
C34_Witness ==
    /\ SequenceCompleted
    /\ prev_vt.mode = "Csi"
    /\ prev_vt.cur = 1
    /\ args = <<65>>
    /\ vt.mode = "Ground"

\* C35: the parser never rejects input: in every mode every byte
\* 0x00..0xFF has a transition to one of the modes, from every mode some
\* byte leads back to Ground, and a byte that is not valid inside a control
\* sequence cancels it: the parser is in Ground with nothing collected and
\* the screen is as before.
C35_ParserTotal ==
    /\ vt.mode \in ParserModes
    /\ steps < MaxBytes =>
          /\ \A b \in 0 .. 255 :
                vt102_command_input_parser(vt, tdata, b).vt.mode
                    \in ParserModes
          /\ \E b \in 0 .. 255 :
                vt102_command_input_parser(vt, tdata, b).vt.mode = "Ground"
    /\ (IsFeed /\ prev_vt.mode = "Csi" /\ args[1] \notin 32 .. 126) =>
          /\ vt.mode = "Ground"
          /\ CsiStateCleared(vt)
          /\ tdata = prev
          /\ emitted = << >>

\* ESC [ 1 LF: a linefeed cancels a sequence that has a parameter
C35_Witness ==
    /\ IsFeed
    /\ prev_vt.mode = "Csi"
    /\ prev_vt.cur = 1
    /\ args = <<10>>
    /\ vt.mode = "Ground"
    /\ tdata = prev

\* C36: a control sequence whose final byte is not in the dispatch table,
\* with any parameters, private marker and intermediates, leaves the whole
\* screen as it was: cells, cursor, margins, current rendition and flags.
C36_UnknownFinalIgnored ==
    (IsFeed /\ prev_vt.mode = "Csi" /\ args[1] \in 64 .. 126
        /\ args[1] \notin DispatchFinals) =>
        /\ tdata = prev
        /\ emitted = << >>

\* 'A' ESC [ z: an unknown final byte with the cursor away from home
C36_Witness ==
    /\ IsFeed
    /\ prev_vt.mode = "Csi"
    /\ args = <<122>>
    /\ prev.cursor_x = 1
    /\ tdata = prev

C38_GridMemorySafety ==
    /\ ~tdata.oob
    /\ ~tdata.crashed
    /\ nocore = 0 =>
          /\ DOMAIN tdata.chbuf = 0 .. tdata.con_width * tdata.con_height - 1
          /\ DOMAIN tdata.grbuf = 0 .. tdata.con_width * tdata.con_height - 1
          /\ DOMAIN tdata.must_refresh_line_buf = 0 .. tdata.con_height - 1

\* an insert of more lines than remain above the bottom margin, with the
\* cursor on the last row of a region that ends on the last row of the
\* screen: the fill ends exactly at the end of the buffers
C38_Witness ==
    /\ op = "insert_lines_at_cursor"
    /\ prev.cursor_y = prev.margin_bottom
    /\ prev.margin_bottom = prev.con_height - 1
    /\ args[1] > 1
    /\ tdata.chbuf[tdata.con_width * tdata.con_height - 1] = SPACE
    /\ ~tdata.oob

\* C39: in the host loop a render pass runs only when the wait timed out,
\* which needs the timeout armed (must_refresh set) and no descriptor
\* readable; and whenever must_refresh is set and nothing is readable,
\* either something arrives or a render pass runs, after which no row is
\* flagged and must_refresh is clear.
AllRowsClean(t) == \A y \in DOMAIN t.must_refresh_line_buf : ~t.must_refresh_line_buf[y]

C39_RenderOnTimeout ==
    /\ [][op' = "render_pass" => (tdata.must_refresh /\ ready = {})]_vars
    /\ (tdata.must_refresh /\ ready = {}) ~>
           \/ ready # {}
           \/ op = "render_pass" /\ ~tdata.must_refresh /\ AllRowsClean(tdata)

\* a render pass has run on a screen with two flagged rows, after a
\* linefeed has scrolled it
C39_Witness ==
    /\ op = "render_pass"
    /\ prev.must_refresh
    /\ \A y \in {0, 1} : prev.must_refresh_line_buf[y]
    /\ prev.chbuf[prev.con_width] = SPACE
    /\ ready = {}
    /\ ~tdata.must_refresh
    /\ AllRowsClean(tdata)

\* with input that never pauses must_refresh can stay set for ever: this
\* formula does not hold of the host loop
C39_RenderNotPostponed == tdata.must_refresh ~> ~tdata.must_refresh

\* C40: when a render pass of the host loop completes no row is flagged
\* and must_refresh is clear; the pass is one step of the single thread, so
\* the cells are as they were when the rows were painted: the strides
\* drawn for each row that was flagged cover the row from column 0 to the
\* last without gap or overlap and spell the characters the row holds after
\* the pass, and nothing but the flags differs from the state before.
RECURSIVE StrideText(_)
StrideText(ss) ==
    IF ss = << >> THEN << >> ELSE Head(ss).text \o StrideText(Tail(ss))

RowText(t, y) == [n \in 1 .. t.con_width |-> t.chbuf[y * t.con_width + n - 1]]

Contiguous(ss) ==
    /\ ss # << >>
    /\ ss[1].x = 0
    /\ \A n \in 1 .. (Len(ss) - 1) : ss[n + 1].x = ss[n].x + Len(ss[n].text)

C40_RenderPassCompletes ==
    op = "render_pass" =>
        /\ AllRowsClean(tdata)
        /\ ~tdata.must_refresh
        /\ tdata = [prev EXCEPT !.must_refresh = FALSE,
                                !.must_refresh_line_buf = tdata.must_refresh_line_buf]
        /\ \A y \in 0 .. (prev.con_height - 1) :
              prev.must_refresh_line_buf[y] =>
                  /\ Contiguous(strides(prev, y, 0))
                  /\ StrideText(strides(prev, y, 0)) = RowText(tdata, y)

\* a pass over a screen where a row was flagged and another was not, after
\* bytes were fed
C40_Witness ==
    /\ op = "render_pass"
    /\ \E y \in DOMAIN prev.must_refresh_line_buf : prev.must_refresh_line_buf[y]
    /\ \E y \in DOMAIN prev.must_refresh_line_buf : ~prev.must_refresh_line_buf[y]
    /\ prev.cursor_x > 0
    /\ AllRowsClean(tdata)
====
